---- MODULE Spec2Model ----
(***************************************************************************)
(* Model of the personal-assistant program: the AddressBook with its       *)
(* Records (phones, birthday), the upcoming-birthdays window, and the      *)
(* NoteBook with its Notes (tags, timestamps, sorting).                    *)
(*                                                                         *)
(* Strings whose characters matter (phones, command tokens, note texts,    *)
(* tags) are sequences of code points; names are compared for equality     *)
(* only and are strings.  A date is a record [year, month, day]; the text  *)
(* "DD.MM.YYYY" is the triple <<DD, MM, YYYY>>.                             *)
(* An optional value is <<>> (None) or <<v>>.                              *)
(***************************************************************************)
EXTENDS Integers, Sequences, FiniteSets, TLC

VARIABLES
    book,        \* AddressBook.data: the records, in dict insertion order
    importDate,  \* datetime.now().date() evaluated when address_book.py is imported
    today,       \* the calendar date now
    last,        \* the last operation: its name, its arguments and what it returned
    notes,       \* NoteBook.notes: the notes, in dict insertion order
    clock,       \* datetime.now() as last read
    nextId,      \* number of uuid4 values drawn so far
    pc,          \* where the process is: at the prompt of run_main_loop, or past it
    saves        \* the saves attempted so far, in order: "book" or "notes"

vars == <<book, importDate, today, last, notes, clock, nextId, pc, saves>>
bookVars == <<book, importDate, today>>
noteVars == <<notes, clock, nextId>>
procVars == <<pc, saves>>

None == <<>>
Some(v) == <<v>>

\* What a call gives back: a value, or an exception of some class.
Return(v) == [exc |-> "None", val |-> v]
Raise(e) == [exc |-> e, val |-> <<>>]

(***************************************************************************)
(* datetime.date                                                           *)
(***************************************************************************)
Date(y, m, d) == [year |-> y, month |-> m, day |-> d]

IsLeap(y) == (y % 4 = 0 /\ y % 100 # 0) \/ y % 400 = 0

DaysInMonth(y, m) ==
    IF m = 2 THEN (IF IsLeap(y) THEN 29 ELSE 28)
    ELSE IF m \in {4, 6, 9, 11} THEN 30 ELSE 31

DaysBeforeYear(y) ==
    (y - 1) * 365 + ((y - 1) \div 4) - ((y - 1) \div 100) + ((y - 1) \div 400)

RECURSIVE DaysBeforeMonth(_, _)
DaysBeforeMonth(y, m) ==
    IF m = 1 THEN 0 ELSE DaysBeforeMonth(y, m - 1) + DaysInMonth(y, m - 1)

IsValidDate(y, m, d) ==
    /\ y >= 1
    /\ m \in 1..12
    /\ d >= 1
    /\ d <= DaysInMonth(y, m)

toordinal(dt) == DaysBeforeYear(dt.year) + DaysBeforeMonth(dt.year, dt.month) + dt.day

\* Monday is 0, Sunday is 6.
weekday(dt) == (toordinal(dt) + 6) % 7

fromordinal(n) ==
    LET y == CHOOSE yy \in ((n \div 366) + 1)..((n \div 365) + 1) :
                 DaysBeforeYear(yy) < n /\ n <= DaysBeforeYear(yy + 1)
        r == n - DaysBeforeYear(y)
        m == CHOOSE mm \in 1..12 :
                 DaysBeforeMonth(y, mm) < r /\ r <= DaysBeforeMonth(y, mm) + DaysInMonth(y, mm)
    IN Date(y, m, r - DaysBeforeMonth(y, m))

\* date + timedelta(days = n)
AddDays(dt, n) == fromordinal(toordinal(dt) + n)

\* date.replace(year = y): ValueError when the day does not exist in year y.
ReplaceYear(dt, y) ==
    IF IsValidDate(y, dt.month, dt.day)
    THEN Return(Date(y, dt.month, dt.day))
    ELSE Raise("ValueError")

\* strftime("%d.%m.%Y")
strftime(dt) == <<dt.day, dt.month, dt.year>>

\* Birthday(value): strptime(value, "%d.%m.%Y").date(), ValueError otherwise.
Birthday(value) ==
    IF Len(value) = 3 /\ IsValidDate(value[3], value[2], value[1])
    THEN Return(Date(value[3], value[2], value[1]))
    ELSE Raise("ValueError")

(***************************************************************************)
(* Field validators                                                        *)
(***************************************************************************)
\* "0".."9"
Digits == 48..57

\* str.isdigit(): non-empty and every character a digit.
isdigit(s) == Len(s) > 0 /\ \A i \in 1..Len(s) : s[i] \in Digits

\* Phone(value) of models/Phone.py, the class Record.py imports.
Phone(value) ==
    IF ~(isdigit(value) /\ Len(value) = 10)
    THEN Raise("ValueError")
    ELSE Return(value)

\* Name(value): "if not value: raise ValueError".
Name(value) ==
    IF value = "" THEN Raise("ValueError") ELSE Return(value)

(***************************************************************************)
(* Record                                                                  *)
(***************************************************************************)
\* Record(name).__init__
NewRecord(name) ==
    IF Name(name).exc # "None"
    THEN Raise(Name(name).exc)
    ELSE Return([name |-> Name(name).val, phones |-> <<>>, birthday |-> None])

\* Record.find_phone: index of the first phone whose value equals the
\* argument as given, 0 for None.
find_phone(record, phone) ==
    IF \E i \in 1..Len(record.phones) : record.phones[i] = phone
    THEN CHOOSE i \in 1..Len(record.phones) :
             /\ record.phones[i] = phone
             /\ \A j \in 1..(i - 1) : record.phones[j] # phone
    ELSE 0

\* Record.add_phone: self.phones.append(Phone(phone)).  Gives the record after
\* the call and the exception, if any.
add_phone(record, phone) ==
    IF Phone(phone).exc # "None"
    THEN [exc |-> Phone(phone).exc, rec |-> record]
    ELSE [exc |-> "None",
          rec |-> [record EXCEPT !.phones = Append(@, Phone(phone).val)]]

\* edit_phone that takes the old value out and appends the new one
EditPhoneMovesToEnd(record, old_phone, new_phone) ==
    IF ~(\E i \in 1..Len(record.phones) : record.phones[i] = old_phone)
    THEN [exc |-> "ValueError", rec |-> record]
    ELSE IF Phone(new_phone).exc # "None"
    THEN [exc |-> Phone(new_phone).exc, rec |-> record]
    ELSE [exc |-> "None",
          rec |-> [record EXCEPT !.phones =
                     Append(SelectSeq(@, LAMBDA p : p # old_phone),
                            Phone(new_phone).val)]]

\* Record.edit_phone: ValueError when find_phone(old) is None; else every
\* position whose value equals old_phone is assigned Phone(new_phone), whose
\* ValueError leaves the list as it was (the first assignment already raises).
edit_phone(record, old_phone, new_phone) ==
    IF find_phone(record, old_phone) = 0
    THEN [exc |-> "ValueError", rec |-> record]
    ELSE IF Phone(new_phone).exc # "None"
    THEN [exc |-> Phone(new_phone).exc, rec |-> record]
    ELSE [exc |-> "None",
          rec |-> [record EXCEPT !.phones =
                     [i \in 1..Len(@) |->
                         IF @[i] = old_phone THEN Phone(new_phone).val ELSE @[i]]]]

\* list.remove(x) with x at index i
RemoveAt(s, i) == SubSeq(s, 1, i - 1) \o SubSeq(s, i + 1, Len(s))

\* Record.delete_phone
delete_phone(record, phone_number) ==
    IF find_phone(record, phone_number) = 0
    THEN record
    ELSE [record EXCEPT !.phones = RemoveAt(@, find_phone(record, phone_number))]

\* Record.add_birthday: self.birthday = Birthday(birthday)
add_birthday(record, birthday) ==
    IF Birthday(birthday).exc # "None"
    THEN [exc |-> Birthday(birthday).exc, rec |-> record]
    ELSE [exc |-> "None", rec |-> [record EXCEPT !.birthday = Some(Birthday(birthday).val)]]

(***************************************************************************)
(* AddressBook (models/address_book.py)                                    *)
(***************************************************************************)
Keys(data) == {data[i].name : i \in 1..Len(data)}

IndexOf(data, name) == CHOOSE i \in 1..Len(data) : data[i].name = name

\* AddressBook.find: the record, or None.
find(data, name) ==
    IF name \in Keys(data) THEN Some(data[IndexOf(data, name)]) ELSE None

\* AddressBook.add_record: self.data[record.name.value] = record
add_record(data, record) ==
    IF record.name \in Keys(data)
    THEN [data EXCEPT ![IndexOf(data, record.name)] = record]
    ELSE Append(data, record)

\* The record named `name`, which is a key, replaced by `record` (handlers
\* mutate the object that find() returned).
Store(data, name, record) == [data EXCEPT ![IndexOf(data, name)] = record]

\* AddressBook.delete removing the first entry of the dict instead
DeleteFirstEntry(data, name) ==
    IF name \in Keys(data)
    THEN [exc |-> "None", data |-> Tail(data), val |-> Some(data[IndexOf(data, name)])]
    ELSE [exc |-> "KeyError", data |-> data, val |-> None]

\* AddressBook.delete: the book afterwards and the record returned
delete(data, name) ==
    IF name \in Keys(data)
    THEN [exc |-> "None", data |-> RemoveAt(data, IndexOf(data, name)),
          val |-> Some(data[IndexOf(data, name)])]
    ELSE [exc |-> "KeyError", data |-> data, val |-> None]

\* WeekendAdjust with the Saturday case moving one day only.
WeekendAdjustSaturdayOneDay(this_year_birthday) ==
    IF weekday(this_year_birthday) \in {5, 6} THEN AddDays(this_year_birthday, 1)
    ELSE this_year_birthday

\* Lines 199-205: a Saturday moves two days on, a Sunday one day on.
WeekendAdjust(this_year_birthday) ==
    IF weekday(this_year_birthday) = 6 THEN AddDays(this_year_birthday, 1)
    ELSE IF weekday(this_year_birthday) = 5 THEN AddDays(this_year_birthday, 2)
    ELSE this_year_birthday

\* Line 209
InWindow(days_until_birthday, days_ahead) ==
    0 <= days_until_birthday /\ days_until_birthday <= days_ahead

\* ResultEntry giving the congratulation date instead of the stored birthday.
ResultEntryCongratulationDate(record, this_year_birthday) ==
    <<record.name, strftime(this_year_birthday)>>

\* Lines 210-215: what is appended for an included record.
ResultEntry(record, this_year_birthday) ==
    <<record.name, strftime(record.birthday[1])>>

\* Lines 188-217: the loop over self.data.values(), from position i on, with
\* `result` as built so far.  The days-until computation and the append sit
\* inside the else branch of "if this_year_birthday < now_date".
RECURSIVE UpcomingLoop(_, _, _, _, _)
UpcomingLoop(data, i, result, days_ahead, now_date) ==
    IF i > Len(data) THEN Return(result)
    ELSE IF data[i].birthday = None
    THEN UpcomingLoop(data, i + 1, result, days_ahead, now_date)
    ELSE
      LET record == data[i]
          replaced == ReplaceYear(record.birthday[1], now_date.year)
      IN IF replaced.exc # "None" THEN Raise(replaced.exc)
         ELSE IF toordinal(replaced.val) < toordinal(now_date)
         THEN IF ReplaceYear(replaced.val, now_date.year + 1).exc # "None"
              THEN Raise(ReplaceYear(replaced.val, now_date.year + 1).exc)
              ELSE UpcomingLoop(data, i + 1, result, days_ahead, now_date)
         ELSE
           LET this_year_birthday == WeekendAdjust(replaced.val)
               days_until_birthday == toordinal(this_year_birthday) - toordinal(now_date)
           IN UpcomingLoop(data, i + 1,
                  IF InWindow(days_until_birthday, days_ahead)
                  THEN Append(result, ResultEntry(record, this_year_birthday))
                  ELSE result,
                  days_ahead, now_date)

\* AddressBook.get_upcoming_birthdays(days_ahead, now_date)
get_upcoming_birthdays(data, days_ahead, now_date) ==
    UpcomingLoop(data, 1, <<>>, days_ahead, now_date)

(***************************************************************************)
(* Command handlers (core/handlers.py) under input_error (decorators.py)   *)
(***************************************************************************)
\* input_error: what the wrapped handler's exception becomes.
input_error(exc) ==
    IF exc \in {"ValueError", "IndexError"} THEN "Enter the argument for the command"
    ELSE IF exc \in {"KeyError", "AttributeError"} THEN "Contact not found"
    ELSE exc

DigitValue(c) == c - 48

RECURSIVE DecimalValue(_)
DecimalValue(s) ==
    IF Len(s) = 0 THEN 0
    ELSE 10 * DecimalValue(SubSeq(s, 1, Len(s) - 1)) + DigitValue(s[Len(s)])

\* int(text) for a token of the command line.
int(text) ==
    IF isdigit(text) THEN Return(DecimalValue(text))
    ELSE IF Len(text) > 1 /\ text[1] = 45 /\ isdigit(Tail(text))
    THEN Return(0 - DecimalValue(Tail(text)))
    ELSE Raise("ValueError")

DefaultDaysAhead == 7

\* _parse_days_ahead: the number of days, None when the argument is invalid.
parse_days_ahead(args) ==
    IF Len(args) = 0 THEN Some(DefaultDaysAhead)
    ELSE IF int(args[1]).exc # "None" THEN None
    ELSE IF int(args[1]).val >= 0 THEN Some(int(args[1]).val)
    ELSE None

\* _calculate_birthday_info(birthday_str, today): (next date, days until, age),
\* each None when date(...) raises.
calculate_birthday_info(birthday_str, now) ==
    LET day == birthday_str[1]
        month == birthday_str[2]
        birth_year == birthday_str[3]
    IN IF ~IsValidDate(now.year, month, day) THEN <<None, None, None>>
       ELSE IF toordinal(Date(now.year, month, day)) < toordinal(now)
       THEN IF ~IsValidDate(now.year + 1, month, day) THEN <<None, None, None>>
            ELSE <<Some(Date(now.year + 1, month, day)),
                   Some(toordinal(Date(now.year + 1, month, day)) - toordinal(now)),
                   Some(now.year + 1 - birth_year)>>
       ELSE <<Some(Date(now.year, month, day)),
              Some(toordinal(Date(now.year, month, day)) - toordinal(now)),
              Some(now.year - birth_year)>>

\* _format_upcoming_birthday: the date shown, the name, the age shown.
format_upcoming_birthday(name, birthday_str, bday_date, age) ==
    [date |-> IF bday_date # None THEN strftime(bday_date[1]) ELSE birthday_str,
     name |-> name,
     age |-> age]

\* show_upcoming_birthdays(args, book): get_upcoming_birthdays is called
\* without now_date, so with the default evaluated at import; the lines are
\* computed against date.today().
show_upcoming_birthdays(args, data, import_date, now) ==
    IF parse_days_ahead(args) = None THEN [kind |-> "invalid number", lines |-> <<>>]
    ELSE
      LET upcoming == get_upcoming_birthdays(data, parse_days_ahead(args)[1], import_date)
      IN IF upcoming.exc # "None"
         THEN [kind |-> input_error(upcoming.exc), lines |-> <<>>]
         ELSE IF upcoming.val = <<>> THEN [kind |-> "no birthdays", lines |-> <<>>]
         ELSE [kind |-> "lines",
               lines |-> [i \in 1..Len(upcoming.val) |->
                   LET info == calculate_birthday_info(upcoming.val[i][2], now)
                   IN format_upcoming_birthday(upcoming.val[i][1], upcoming.val[i][2],
                                               info[1], info[3])]]

\* add_contact(args, book), args = [name, phone]: the book afterwards and the
\* message.  The new Record is put into the book before the phone is looked
\* at.
add_contact(data, name, phone) ==
    LET found == find(data, name)
        created == NewRecord(name)
    IN IF found = None /\ created.exc # "None"
       THEN [data |-> data, out |-> input_error(created.exc)]
       ELSE
         LET record == IF found = None THEN created.val ELSE found[1]
             data1 == IF found = None THEN add_record(data, record) ELSE data
         IN IF find_phone(record, phone) # 0
            THEN [data |-> data1, out |-> "already exists"]
            ELSE IF add_phone(record, phone).exc # "None"
            THEN [data |-> data1, out |-> input_error(add_phone(record, phone).exc)]
            ELSE [data |-> Store(data1, name, add_phone(record, phone).rec),
                  out |-> IF found = None THEN "added" ELSE "updated"]

\* update_contact(args, book), args = [name, old_phone, new_phone]
update_contact(data, name, old_phone, new_phone) ==
    IF find(data, name) = None THEN [data |-> data, out |-> "not found"]
    ELSE LET edited == edit_phone(find(data, name)[1], old_phone, new_phone)
         IN IF edited.exc # "None"
            THEN [data |-> data, out |-> input_error(edited.exc)]
            ELSE [data |-> Store(data, name, edited.rec), out |-> "updated"]

\* add_birthday(args, book), args = [name, birthday]
add_birthday_cmd(data, name, birthday) ==
    IF find(data, name) = None THEN [data |-> data, out |-> "not found"]
    ELSE LET added == add_birthday(find(data, name)[1], birthday)
         IN IF added.exc # "None"
            THEN [data |-> data, out |-> input_error(added.exc)]
            ELSE [data |-> Store(data, name, added.rec), out |-> "birthday added"]

(***************************************************************************)
(* Inputs and bounds                                                       *)
(***************************************************************************)
MaxPhones == 2       \* phones per record
MaxDaysElapsed == 1  \* days the process runs past its import date
MaxNotes == 1        \* notes created while the tag operations are explored
MaxListed == 3       \* notes created while the listings are explored
MaxClock == 2        \* last value of the clock

Names == {"ann", "bob"}
NameInputs == Names \cup {""}

Repeat(c, n) == [i \in 1..n |-> c]

\* "1111111111", "2222222222", "111-111-1111", "123"
RawPhones ==
    { Repeat(49, 10), Repeat(50, 10),
      <<49, 49, 49, 45, 49, 49, 49, 45, 49, 49, 49, 49>>,
      <<49, 50, 51>> }

\* 08.06.1990 (a Saturday in 2024), 09.06.1991 (a Sunday in 2024), 05.06.1985,
\* 02.01.1990, 29.02.2000, and 30.02.2000, which is no date.
BirthdayInputs ==
    { <<8, 6, 1990>>, <<9, 6, 1991>>, <<5, 6, 1985>>, <<2, 1, 1990>>,
      <<29, 2, 2000>>, <<30, 2, 2000>> }

\* Wed 2024-06-05, Sat 2024-06-08, Sun 2024-06-09, Mon 2024-12-30, Wed 2023-03-01
NowDates ==
    { Date(2024, 6, 5), Date(2024, 6, 8), Date(2024, 6, 9), Date(2024, 12, 30),
      Date(2023, 3, 1) }

StartDates == { Date(2024, 6, 5) }

DaysAheadInputs == {0, 3, 4, 5, 7}

\* the argument lists of the upcoming-birthdays command: none, "5", "-1", "x"
DaysArgs == { <<>>, << <<53>> >>, << <<45, 49>> >>, << <<120>> >> }

(***************************************************************************)
(* State machine of the address book                                       *)
(***************************************************************************)
Init ==
    /\ book = <<>>
    /\ importDate \in StartDates
    /\ today = importDate
    /\ last = [op |-> "init"]
    /\ notes = <<>>
    /\ clock = 0
    /\ nextId = 0
    /\ pc = "prompt"
    /\ saves = <<>>

\* book.add_record(Record(name))
AddRecord(name) ==
    /\ NewRecord(name).exc = "None"
    /\ book' = add_record(book, NewRecord(name).val)
    /\ UNCHANGED procVars
    /\ last' = [op |-> "add_record", name |-> name]
    /\ UNCHANGED <<importDate, today, noteVars>>

\* Record(name) raises: nothing is added.
AddRecordFails(name) ==
    /\ NewRecord(name).exc # "None"
    /\ UNCHANGED procVars
    /\ last' = [op |-> "add_record", name |-> name, exc |-> NewRecord(name).exc]
    /\ UNCHANGED <<book, importDate, today, noteVars>>

\* the add-birthday command
AddBirthdayCmd(name, birthday) ==
    /\ book' = add_birthday_cmd(book, name, birthday).data
    /\ UNCHANGED procVars
    /\ last' = [op |-> "add-birthday", name |-> name, birthday |-> birthday,
                out |-> add_birthday_cmd(book, name, birthday).out]
    /\ UNCHANGED <<importDate, today, noteVars>>

\* book.get_upcoming_birthdays(days_ahead, now_date)
GetUpcomingBirthdays(days_ahead, now_date) ==
    /\ UNCHANGED procVars
    /\ last' = [op |-> "get_upcoming_birthdays", days_ahead |-> days_ahead,
                now_date |-> now_date,
                ret |-> get_upcoming_birthdays(book, days_ahead, now_date)]
    /\ UNCHANGED <<bookVars, noteVars>>

\* the upcoming-birthdays command
ShowUpcomingBirthdaysCmd(args) ==
    /\ UNCHANGED procVars
    /\ last' = [op |-> "upcoming-birthdays", args |-> args,
                out |-> show_upcoming_birthdays(args, book, importDate, today)]
    /\ UNCHANGED <<bookVars, noteVars>>

\* midnight passes while the process runs
NextDay ==
    /\ toordinal(today) - toordinal(importDate) < MaxDaysElapsed
    /\ today' = AddDays(today, 1)
    /\ UNCHANGED procVars
    /\ last' = [op |-> "midnight"]
    /\ UNCHANGED <<book, importDate, noteVars>>

NextBirthdays ==
    \/ \E name \in NameInputs : AddRecord(name)
    \/ \E name \in NameInputs : AddRecordFails(name)
    \/ \E name \in Names, birthday \in BirthdayInputs : AddBirthdayCmd(name, birthday)
    \/ \E days_ahead \in DaysAheadInputs, now_date \in NowDates :
           GetUpcomingBirthdays(days_ahead, now_date)
    \/ \E args \in DaysArgs : ShowUpcomingBirthdaysCmd(args)
    \/ NextDay

SpecBirthdays == Init /\ [][NextBirthdays]_vars

(***************************************************************************)
(* Claims about the upcoming-birthdays window                              *)
(***************************************************************************)
Returned == last.op = "get_upcoming_birthdays" /\ last.ret.exc = "None"

Included(name) == \E k \in 1..Len(last.ret.val) : last.ret.val[k][1] = name

HasBirthdayIn(record, year) ==
    /\ record.birthday # None
    /\ IsValidDate(year, record.birthday[1].month, record.birthday[1].day)

\* the ordinal of the record's birthday placed in `year`
BirthdayOrdinalIn(record, year) ==
    toordinal(Date(year, record.birthday[1].month, record.birthday[1].day))

\* the ordinal moved to Monday when it is a Saturday (+2) or a Sunday (+1)
RolledOrdinal(o) ==
    IF (o + 6) % 7 = 5 THEN o + 2 ELSE IF (o + 6) % 7 = 6 THEN o + 1 ELSE o

PassedThisYear(record, now) ==
    /\ HasBirthdayIn(record, now.year)
    /\ BirthdayOrdinalIn(record, now.year) < toordinal(now)

NotPassedThisYear(record, now) ==
    /\ HasBirthdayIn(record, now.year)
    /\ BirthdayOrdinalIn(record, now.year) >= toordinal(now)

\* C1: after get_upcoming_birthdays(days_ahead, today) has returned, a record
\* whose birthday placed in today's year is earlier than today is in the
\* result exactly when its occurrence in year today.year + 1, not moved off a
\* weekend, is between 0 and days_ahead days away.
C1_PassedBirthdayIncludedInWindow ==
    Returned =>
      \A i \in 1..Len(book) :
        (PassedThisYear(book[i], last.now_date) /\ HasBirthdayIn(book[i], last.now_date.year + 1))
          => (Included(book[i].name)
                <=> LET days_until == BirthdayOrdinalIn(book[i], last.now_date.year + 1)
                                        - toordinal(last.now_date)
                    IN 0 <= days_until /\ days_until <= last.days_ahead)

\* C2: after get_upcoming_birthdays(days_ahead, today) has returned, a record
\* whose birthday in today's year is today or later is in the result exactly
\* when that date, moved to Monday from a Saturday (+2) or a Sunday (+1), is
\* between 0 and days_ahead days away; with today = Wed 2024-06-05 and
\* birthday 08.06.1990 that is exactly when days_ahead >= 5.
C2_NotPassedBirthdayRolledWindow ==
    Returned =>
      \A i \in 1..Len(book) :
        NotPassedThisYear(book[i], last.now_date)
          => /\ Included(book[i].name)
                  <=> LET days_until ==
                            RolledOrdinal(BirthdayOrdinalIn(book[i], last.now_date.year))
                              - toordinal(last.now_date)
                      IN 0 <= days_until /\ days_until <= last.days_ahead
             /\ (last.now_date = Date(2024, 6, 5) /\ book[i].birthday = Some(Date(1990, 6, 8)))
                  => (Included(book[i].name) <=> last.days_ahead >= 5)

\* C2 witness: today = Wed 2024-06-05, birthday 08.06.1990, days_ahead = 5,
\* and the record is in the result.
C2_Witness ==
    /\ Returned
    /\ last.now_date = Date(2024, 6, 5)
    /\ last.days_ahead = 5
    /\ \E i \in 1..Len(book) :
         book[i].birthday = Some(Date(1990, 6, 8)) /\ Included(book[i].name)

C4_ReportsCongratulationDate ==
    /\ Returned =>
         \A i \in 1..Len(book), k \in 1..Len(last.ret.val) :
           ( /\ NotPassedThisYear(book[i], last.now_date)
             /\ (BirthdayOrdinalIn(book[i], last.now_date.year) + 6) % 7 \in {5, 6}
             /\ last.ret.val[k][1] = book[i].name )
             => last.ret.val[k][2] =
                  strftime(fromordinal(RolledOrdinal(
                      BirthdayOrdinalIn(book[i], last.now_date.year))))
    /\ (last.op = "upcoming-birthdays" /\ last.out.kind = "lines" /\ today = importDate) =>
         \A i \in 1..Len(book), k \in 1..Len(last.out.lines) :
           ( /\ NotPassedThisYear(book[i], today)
             /\ (BirthdayOrdinalIn(book[i], today.year) + 6) % 7 \in {5, 6}
             /\ last.out.lines[k].name = book[i].name )
             => last.out.lines[k].date =
                  strftime(fromordinal(RolledOrdinal(BirthdayOrdinalIn(book[i], today.year))))

(***************************************************************************)
(* State machine of the phone lists                                        *)
(***************************************************************************)
PhonesOf(name) == find(book, name)[1].phones

\* record.add_phone(phone) on the record stored under `name`
RecordAddPhone(name, phone) ==
    /\ name \in Keys(book)
    /\ Len(PhonesOf(name)) < MaxPhones
    /\ book' = Store(book, name, add_phone(find(book, name)[1], phone).rec)
    /\ UNCHANGED procVars
    /\ last' = [op |-> "add_phone", name |-> name, phone |-> phone,
                before |-> PhonesOf(name),
                exc |-> add_phone(find(book, name)[1], phone).exc]
    /\ UNCHANGED <<importDate, today, noteVars>>

\* record.edit_phone(old_phone, new_phone)
RecordEditPhone(name, old_phone, new_phone) ==
    /\ name \in Keys(book)
    /\ book' = Store(book, name, edit_phone(find(book, name)[1], old_phone, new_phone).rec)
    /\ UNCHANGED procVars
    /\ last' = [op |-> "edit_phone", name |-> name, old_phone |-> old_phone,
                new_phone |-> new_phone, before |-> PhonesOf(name),
                exc |-> edit_phone(find(book, name)[1], old_phone, new_phone).exc]
    /\ UNCHANGED <<importDate, today, noteVars>>

\* record.delete_phone(phone_number)
RecordDeletePhone(name, phone_number) ==
    /\ name \in Keys(book)
    /\ book' = Store(book, name, delete_phone(find(book, name)[1], phone_number))
    /\ UNCHANGED procVars
    /\ last' = [op |-> "delete_phone", name |-> name, phone |-> phone_number,
                before |-> PhonesOf(name)]
    /\ UNCHANGED <<importDate, today, noteVars>>

\* the add-contact command
AddContactCmd(name, phone) ==
    /\ name \in Keys(book) => Len(PhonesOf(name)) < MaxPhones
    /\ book' = add_contact(book, name, phone).data
    /\ UNCHANGED procVars
    /\ last' = [op |-> "add-contact", name |-> name, phone |-> phone,
                before |-> IF name \in Keys(book) THEN PhonesOf(name) ELSE <<>>,
                known |-> name \in Keys(book),
                out |-> add_contact(book, name, phone).out]
    /\ UNCHANGED <<importDate, today, noteVars>>

\* the change-contact command
UpdateContactCmd(name, old_phone, new_phone) ==
    /\ book' = update_contact(book, name, old_phone, new_phone).data
    /\ UNCHANGED procVars
    /\ last' = [op |-> "change-contact", name |-> name, old_phone |-> old_phone,
                new_phone |-> new_phone,
                before |-> IF name \in Keys(book) THEN PhonesOf(name) ELSE <<>>,
                out |-> update_contact(book, name, old_phone, new_phone).out]
    /\ UNCHANGED <<importDate, today, noteVars>>

NextPhones ==
    \/ \E name \in NameInputs, phone \in RawPhones : AddContactCmd(name, phone)
    \/ \E name \in Names, old_phone, new_phone \in RawPhones :
           UpdateContactCmd(name, old_phone, new_phone)
    \/ \E name \in Names, phone \in RawPhones : RecordAddPhone(name, phone)
    \/ \E name \in Names, old_phone, new_phone \in RawPhones :
           RecordEditPhone(name, old_phone, new_phone)
    \/ \E name \in Names, phone \in RawPhones : RecordDeletePhone(name, phone)

SpecPhones == Init /\ [][NextPhones]_vars

\* C28: get_upcoming_birthdays returns a list, without raising, for every
\* book of valid birthdays and every reference date, a record born on 29
\* February and a reference year that is no leap year included.
C28_UpcomingBirthdaysNeverRaises ==
    last.op = "get_upcoming_birthdays" => last.ret.exc = "None"

\* C29: the upcoming-birthdays command, which passes no reference date,
\* computes its window from the calendar date of the call: its output is the
\* one that date gives, also when the process started on an earlier day.
C29_WindowFromTheDayOfTheCall ==
    last.op = "upcoming-birthdays" =>
        last.out = show_upcoming_birthdays(last.args, book, today, today)

\* the digits of a raw phone, in order
DigitsOf(raw) == SelectSeq(raw, LAMBDA c : c \in Digits)

\* C5: no record's phone list holds the same 10-digit value twice, and
\* add_phone of a value already in the list (however it is typed) fails and
\* leaves the list unchanged.
C5_NoDuplicatePhones ==
    /\ \A i \in 1..Len(book) :
         \A j, k \in 1..Len(book[i].phones) :
             book[i].phones[j] = book[i].phones[k] => j = k
    /\ ( /\ last.op = "add_phone"
         /\ \E j \in 1..Len(last.before) : last.before[j] = DigitsOf(last.phone) )
         => (last.exc # "None" /\ PhonesOf(last.name) = last.before)

\* C21: edit_phone(old, new) fails and leaves the phone list as it was when
\* no stored phone has value old, and when new is not a valid phone;
\* otherwise the list keeps its length, each position that held old holds the
\* validated new value and every other position is as before.
C21_EditPhoneReplacesInPlace ==
    last.op = "edit_phone" =>
        LET before == last.before
            after == PhonesOf(last.name)
            held == { i \in 1..Len(before) : before[i] = last.old_phone }
            valid == isdigit(last.new_phone) /\ Len(last.new_phone) = 10
        IN /\ held = {} => (last.exc = "ValueError" /\ after = before)
           /\ (held # {} /\ ~valid) => (last.exc = "ValueError" /\ after = before)
           /\ (held # {} /\ valid) =>
                 /\ last.exc = "None"
                 /\ Len(after) = Len(before)
                 /\ \A i \in 1..Len(before) :
                      after[i] = IF i \in held THEN last.new_phone ELSE before[i]

\* an edit that replaced the second of two phones and kept the first
C21_Witness ==
    /\ last.op = "edit_phone"
    /\ last.exc = "None"
    /\ Len(last.before) = 2
    /\ last.before[2] = last.old_phone
    /\ last.before[1] # last.old_phone
    /\ PhonesOf(last.name)[2] = last.new_phone
    /\ last.new_phone # last.old_phone

\* C26: an add-contact that reports an error leaves the address book as it
\* was: a name that was not in the book is not in it afterwards, and the
\* phones of a name that was are as before.
C26_AddContactAtomicOnFailure ==
    (last.op = "add-contact" /\ last.out \notin {"added", "updated"}) =>
        /\ (last.name \in Keys(book)) = last.known
        /\ last.known => PhonesOf(last.name) = last.before

\* record.find_phone(phone) on the record stored under `name`: the Phone
\* found, or None
RecordFindPhone(name, phone) ==
    /\ name \in Keys(book)
    /\ UNCHANGED procVars
    /\ last' = [op |-> "find_phone", name |-> name, phone |-> phone,
                before |-> PhonesOf(name),
                ret |-> IF find_phone(find(book, name)[1], phone) = 0 THEN None
                        ELSE Some(PhonesOf(name)[find_phone(find(book, name)[1], phone)])]
    /\ UNCHANGED <<bookVars, noteVars>>

NextFindPhone ==
    \/ \E name \in NameInputs, phone \in RawPhones : AddContactCmd(name, phone)
    \/ \E name \in Names, phone \in RawPhones : RecordAddPhone(name, phone)
    \/ \E name \in Names, phone \in RawPhones : RecordFindPhone(name, phone)

SpecFindPhone == Init /\ [][NextFindPhone]_vars

\* C22: find_phone(q) returns the stored phone whose value is the digits of
\* q, whatever separators q contains, and None when no stored phone matches;
\* the record is as before.
C22_FindPhoneIgnoresSeparators ==
    last.op = "find_phone" =>
        /\ PhonesOf(last.name) = last.before
        /\ IF \E j \in 1..Len(last.before) : last.before[j] = DigitsOf(last.phone)
           THEN last.ret = Some(DigitsOf(last.phone))
           ELSE last.ret = None

\* Phone(value) of models/phone.py: re.sub(r"\D", "", value) takes the
\* non-digits out; nothing left, or not 10 digits, is a ValueError.
phone_Phone(value) ==
    IF DigitsOf(value) = <<>> THEN Raise("ValueError")
    ELSE IF ~(isdigit(DigitsOf(value)) /\ Len(DigitsOf(value)) = 10)
    THEN Raise("ValueError")
    ELSE Return(DigitsOf(value))

\* RawPhones and: "", "abc", "1-2", eleven digits, "(111) 111-11-11"
PhoneTexts ==
    RawPhones \cup
    { <<>>, <<97, 98, 99>>, <<49, 45, 50>>, Repeat(49, 11),
      <<40, 49, 49, 49, 41, 32, 49, 49, 49, 45, 49, 49, 45, 49, 49>> }

\* Phone(raw) is constructed, by the class of models/Phone.py that Record.py
\* imports and by the class of models/phone.py
NewPhone(raw) ==
    /\ UNCHANGED procVars
    /\ last' = [op |-> "Phone", raw |-> raw,
                Phone |-> Phone(raw), phone |-> phone_Phone(raw)]
    /\ UNCHANGED <<bookVars, noteVars>>

NextPhoneValues ==
    \/ \E raw \in PhoneTexts : NewPhone(raw)
    \/ \E name \in NameInputs, phone \in RawPhones : AddContactCmd(name, phone)
    \/ \E name \in Names, phone \in RawPhones : RecordAddPhone(name, phone)

SpecPhoneValues == Init /\ [][NextPhoneValues]_vars

\* what the claim gives for Phone(raw)
NormalizedPhone(raw) ==
    IF Len(DigitsOf(raw)) = 10 THEN Return(DigitsOf(raw)) ELSE Raise("ValueError")

\* C23: Phone(raw) succeeds with exactly the 10 digits of raw, in order, when
\* raw holds 10 digits among any separators, and fails with ValueError
\* otherwise; every phone stored in a record is a string of 10 digits.
C23_PhoneNormalizesToTenDigits ==
    /\ last.op = "Phone" =>
          (last.Phone = NormalizedPhone(last.raw) /\ last.phone = NormalizedPhone(last.raw))
    /\ last.op = "add_phone" =>
          (last.exc = NormalizedPhone(last.phone).exc)
    /\ \A i \in 1..Len(book) : \A j \in 1..Len(book[i].phones) :
          isdigit(book[i].phones[j]) /\ Len(book[i].phones[j]) = 10

(***************************************************************************)
(* Note (models/Note.py)                                                   *)
(***************************************************************************)
\* str.strip() leaves nothing: every character is white space.
IsBlank(text) == \A i \in 1..Len(text) : text[i] \in {32, 9, 10, 13}

Contains(list, x) == \E i \in 1..Len(list) : list[i] = x

FirstIndex(list, x) ==
    CHOOSE i \in 1..Len(list) : list[i] = x /\ \A j \in 1..(i - 1) : list[j] # x

\* Note(text, tags) at time `now`, with `uuid` the uuid4 drawn; tags is None
\* or Some(list).
NewNote(uuid, text, tags, now) ==
    IF Len(text) = 0 \/ IsBlank(text)
    THEN Raise("ValueError")
    ELSE Return([uuid |-> uuid,
                 text |-> text,
                 tags |-> IF tags # None THEN tags[1] ELSE <<>>,
                 created_at |-> now,
                 updated_at |-> now])

\* add_tag writing the timestamp also when the tag is already there.
AddTagAlwaysBumps(note, tag, now) ==
    IF ~Contains(note.tags, tag)
    THEN [note EXCEPT !.tags = Append(@, tag), !.updated_at = now]
    ELSE [note EXCEPT !.updated_at = now]

\* Note.add_tag
add_tag(note, tag, now) ==
    IF ~Contains(note.tags, tag)
    THEN [note EXCEPT !.tags = Append(@, tag), !.updated_at = now]
    ELSE note

\* Note.remove_tag: list.remove takes out the first occurrence.
remove_tag(note, tag, now) ==
    IF Contains(note.tags, tag)
    THEN [note EXCEPT !.tags = RemoveAt(@, FirstIndex(@, tag)), !.updated_at = now]
    ELSE note

\* edit_tags leaving the note alone when the new list equals the old one.
EditTagsSkipsUnchanged(note, new_tags, now) ==
    IF note.tags = (IF new_tags # None THEN new_tags[1] ELSE <<>>)
    THEN note
    ELSE [note EXCEPT !.tags = IF new_tags # None THEN new_tags[1] ELSE <<>>,
                      !.updated_at = now]

\* edit_tags writing the timestamp into created_at as well.
EditTagsTouchesCreated(note, new_tags, now) ==
    [note EXCEPT !.tags = IF new_tags # None THEN new_tags[1] ELSE <<>>,
                 !.created_at = now,
                 !.updated_at = now]

\* Note.edit_tags; new_tags is None or Some(list).
edit_tags(note, new_tags, now) ==
    [note EXCEPT !.tags = IF new_tags # None THEN new_tags[1] ELSE <<>>,
                 !.updated_at = now]

(***************************************************************************)
(* NoteBook (models/notebook.py)                                           *)
(***************************************************************************)
NoteIds(ns) == {ns[i].uuid : i \in 1..Len(ns)}

NoteIndex(ns, uuid) == CHOOSE i \in 1..Len(ns) : ns[i].uuid = uuid

\* NoteBook.add_note: self.notes[note._uuid] = note
notebook_add_note(ns, note) ==
    IF note.uuid \in NoteIds(ns)
    THEN [ns EXCEPT ![NoteIndex(ns, note.uuid)] = note]
    ELSE Append(ns, note)

\* the note object with this uuid, mutated in place
StoreNote(ns, note) == [ns EXCEPT ![NoteIndex(ns, note.uuid)] = note]

\* NoteBook.delete_note
notebook_delete_note(ns, uuid) ==
    IF uuid \in NoteIds(ns) THEN RemoveAt(ns, NoteIndex(ns, uuid)) ELSE ns

\* str.lower() on the ASCII letters
lower(text) == [i \in 1..Len(text) |-> IF text[i] \in 65..90 THEN text[i] + 32 ELSE text[i]]

\* a < b for two strings (or two one-element keys): the first difference
\* decides, a proper prefix is smaller.
StrLess(a, b) ==
    \E i \in 1..Len(b) :
        /\ \A j \in 1..(i - 1) : j <= Len(a) /\ a[j] = b[j]
        /\ (i > Len(a) \/ (i <= Len(a) /\ a[i] < b[i]))
        /\ i - 1 <= Len(a)

\* the sentinel "￿"
NoTagKey == <<65535>>

\* the key functions of get_all_notes; an unknown sort_by is "created"
SortKey(note, sort_by) ==
    IF sort_by = "updated" THEN <<note.updated_at>>
    ELSE IF sort_by = "text" THEN lower(note.text)
    ELSE IF sort_by = "tags"
    THEN (IF Len(note.tags) > 0 THEN lower(note.tags[1]) ELSE NoTagKey)
    ELSE <<note.created_at>>

\* x goes before e: smaller key, or greater key when reversed.
GoesBefore(x, e, sort_by, reverse) ==
    IF reverse THEN StrLess(SortKey(e, sort_by), SortKey(x, sort_by))
    ELSE StrLess(SortKey(x, sort_by), SortKey(e, sort_by))

\* x put into a sorted list after every element it does not go before
\* (sorted() is stable, also with reverse = True).
RECURSIVE InsertSorted(_, _, _, _)
InsertSorted(sorted, x, sort_by, reverse) ==
    IF Len(sorted) = 0 THEN <<x>>
    ELSE IF GoesBefore(x, sorted[Len(sorted)], sort_by, reverse)
    THEN Append(InsertSorted(SubSeq(sorted, 1, Len(sorted) - 1), x, sort_by, reverse),
                sorted[Len(sorted)])
    ELSE Append(sorted, x)

RECURSIVE SortedNotes(_, _, _)
SortedNotes(ns, sort_by, reverse) ==
    IF Len(ns) = 0 THEN <<>>
    ELSE InsertSorted(SortedNotes(SubSeq(ns, 1, Len(ns) - 1), sort_by, reverse),
                      ns[Len(ns)], sort_by, reverse)

\* NoteBook.get_all_notes(sort_by, reverse)
get_all_notes(ns, sort_by, reverse) == SortedNotes(ns, sort_by, reverse)

\* get_note_by_number reading the list from index 0
GetNoteByNumberZeroBased(ns, number, sort_by) ==
    IF 0 <= number /\ number < Len(ns)
    THEN Some(get_all_notes(ns, sort_by, TRUE)[number + 1])
    ELSE None

\* NoteBook.get_note_by_number(number, sort_by): reverse keeps its default, True
get_note_by_number(ns, number, sort_by) ==
    IF 1 <= number /\ number <= Len(ns)
    THEN Some(get_all_notes(ns, sort_by, TRUE)[number])
    ELSE None

(***************************************************************************)
(* Note commands (core/handlers.py)                                        *)
(***************************************************************************)
\* " ".join(tags_input)
RECURSIVE JoinWithSpace(_)
JoinWithSpace(list) ==
    IF Len(list) = 0 THEN <<>>
    ELSE IF Len(list) = 1 THEN list[1]
    ELSE list[1] \o <<32>> \o JoinWithSpace(Tail(list))

\* str.replace(",", " ")
CommasToSpaces(text) == [i \in 1..Len(text) |-> IF text[i] = 44 THEN 32 ELSE text[i]]

\* str.split(): the maximal runs of characters that are not white space;
\* `word` is the run being read.
RECURSIVE SplitFrom(_, _, _)
SplitFrom(text, i, word) ==
    IF i > Len(text) THEN (IF Len(word) > 0 THEN <<word>> ELSE <<>>)
    ELSE IF text[i] \in {32, 9, 10, 13}
    THEN (IF Len(word) > 0 THEN <<word>> ELSE <<>>) \o SplitFrom(text, i + 1, <<>>)
    ELSE SplitFrom(text, i + 1, Append(word, text[i]))

split(text) == SplitFrom(text, 1, <<>>)

\* Lines 477-486: the tags not seen before, in order.
RECURSIVE Unique(_)
Unique(tags) ==
    IF Len(tags) = 0 THEN <<>>
    ELSE LET front == Unique(SubSeq(tags, 1, Len(tags) - 1))
         IN IF Contains(front, tags[Len(tags)]) \/ Len(tags[Len(tags)]) = 0
            THEN front
            ELSE Append(front, tags[Len(tags)])

\* parse_tags(tags_input) for a list of argument strings
parse_tags(tags_input) == Unique(split(CommasToSpaces(JoinWithSpace(tags_input))))

\* add_note(args, notebook), args = [text, tags...]: the notebook afterwards
\* and the number announced (0 with an error message).
add_note_cmd(ns, uuid, args, now) ==
    IF Len(args) = 0 THEN [notes |-> ns, out |-> input_error("ValueError"), number |-> 0]
    ELSE
      LET tags == IF Len(args) > 1 THEN parse_tags(Tail(args)) ELSE <<>>
          note == NewNote(uuid, args[1], Some(tags), now)
      IN IF note.exc # "None"
         THEN [notes |-> ns, out |-> input_error(note.exc), number |-> 0]
         ELSE LET ns1 == notebook_add_note(ns, note.val)
                  all_notes == get_all_notes(ns1, "created", FALSE)
              IN [notes |-> ns1, out |-> "added",
                  number |-> CHOOSE k \in 1..Len(all_notes) :
                                 /\ all_notes[k] = note.val
                                 /\ \A j \in 1..(k - 1) : all_notes[j] # note.val]

\* NoteBook.find_note_by_text: the first stored note whose lowered text
\* contains the lowered fragment.
HasFragment(text, fragment) ==
    \E k \in 0..(Len(text) - Len(fragment)) :
        SubSeq(text, k + 1, k + Len(fragment)) = fragment

find_note_by_text(ns, text_fragment) ==
    IF \E i \in 1..Len(ns) : HasFragment(lower(ns[i].text), lower(text_fragment))
    THEN Some(ns[CHOOSE i \in 1..Len(ns) :
                    /\ HasFragment(lower(ns[i].text), lower(text_fragment))
                    /\ \A j \in 1..(i - 1) :
                           ~HasFragment(lower(ns[j].text), lower(text_fragment))])
    ELSE None

\* Lines 649-656 of edit_note and 687-697 of delete_note: the note an
\* identifier names.
note_by_identifier(ns, identifier) ==
    IF isdigit(identifier)
    THEN get_note_by_number(ns, int(identifier).val, "created")
    ELSE find_note_by_text(ns, identifier)

\* edit_note(args, notebook), args = [identifier, new_text, new_tags...];
\* datetime.now() is read at `now1` and then, inside edit_tags, at `now2`.
edit_note_cmd(ns, args, now1, now2) ==
    IF Len(args) < 2 THEN [notes |-> ns, out |-> input_error("ValueError")]
    ELSE
      LET new_tags == IF Len(args) > 2 THEN parse_tags(SubSeq(args, 3, Len(args))) ELSE <<>>
          note == note_by_identifier(ns, args[1])
      IN IF note = None THEN [notes |-> ns, out |-> "not found"]
         ELSE [notes |-> StoreNote(ns,
                   edit_tags([note[1] EXCEPT !.text = args[2], !.updated_at = now1],
                             Some(new_tags), now2)),
               out |-> "updated"]

(***************************************************************************)
(* State machine of the notes                                              *)
(***************************************************************************)
\* "a", "b"
TagInputs == { <<97>>, <<98>> }

\* None, [], ["a", "b"], ["a", "a"]
TagListInputs == { None, Some(<<>>), Some(<< <<97>>, <<98>> >>), Some(<< <<97>>, <<97>> >>) }

\* "x", " "
NoteTexts == { <<120>>, <<32>> }

\* add-note argument lists: none; "x"; "x" "a,a"; "x" "b" "a"
AddNoteArgs ==
    { <<>>, << <<120>> >>, << <<120>>, <<97, 44, 97>> >>, << <<120>>, <<98>>, <<97>> >> }

\* edit-note argument lists: "1"; "1" "x"; "1" "x" "b,b"; "x" "x" "a"
EditNoteArgs ==
    { << <<49>> >>, << <<49>>, <<120>> >>, << <<49>>, <<120>>, <<98, 44, 98>> >>,
      << <<120>>, <<120>>, <<97>> >> }

\* the readings datetime.now() can give next
Nows == {t \in {clock, clock + 1} : t <= MaxClock}

NoteOf(uuid) == notes[NoteIndex(notes, uuid)]

\* notebook.add_note(Note(text, tags)), at most `limit` notes being created
CreateNote(text, tags, limit) ==
    /\ nextId < limit
    /\ \E now \in Nows :
         /\ NewNote(nextId + 1, text, tags, now).exc = "None"
         /\ notes' = notebook_add_note(notes, NewNote(nextId + 1, text, tags, now).val)
         /\ clock' = now
         /\ nextId' = nextId + 1
         /\ UNCHANGED procVars
         /\ last' = [op |-> "Note", uuid |-> nextId + 1, tags |-> tags, now |-> now]
    /\ UNCHANGED bookVars

\* Note(text, tags) raises: no note, no uuid
CreateNoteFails(text, tags) ==
    /\ NewNote(nextId + 1, text, tags, clock).exc # "None"
    /\ UNCHANGED procVars
    /\ last' = [op |-> "Note", uuid |-> 0, exc |-> NewNote(nextId + 1, text, tags, clock).exc]
    /\ UNCHANGED <<bookVars, noteVars>>

\* the add-note command
AddNoteCmd(args, limit) ==
    /\ nextId < limit
    /\ \E now \in Nows :
         LET done == add_note_cmd(notes, nextId + 1, args, now)
         IN /\ notes' = done.notes
            /\ clock' = IF done.number > 0 THEN now ELSE clock
            /\ nextId' = IF done.number > 0 THEN nextId + 1 ELSE nextId
            /\ UNCHANGED procVars
            /\ last' = [op |-> "add-note", args |-> args, out |-> done.out,
                        number |-> done.number,
                        uuid |-> IF done.number > 0 THEN nextId + 1 ELSE 0]
    /\ UNCHANGED bookVars

\* note.add_tag(tag)
NoteAddTag(uuid, tag) ==
    /\ uuid \in NoteIds(notes)
    /\ \E now \in Nows :
         /\ notes' = StoreNote(notes, add_tag(NoteOf(uuid), tag, now))
         /\ clock' = now
         /\ UNCHANGED procVars
         /\ last' = [op |-> "add_tag", uuid |-> uuid, tag |-> tag, now |-> now,
                     before |-> Some(NoteOf(uuid))]
    /\ UNCHANGED <<bookVars, nextId>>

\* note.remove_tag(tag)
NoteRemoveTag(uuid, tag) ==
    /\ uuid \in NoteIds(notes)
    /\ \E now \in Nows :
         /\ notes' = StoreNote(notes, remove_tag(NoteOf(uuid), tag, now))
         /\ clock' = now
         /\ UNCHANGED procVars
         /\ last' = [op |-> "remove_tag", uuid |-> uuid, tag |-> tag, now |-> now,
                     before |-> Some(NoteOf(uuid))]
    /\ UNCHANGED <<bookVars, nextId>>

\* note.edit_tags(new_tags)
NoteEditTags(uuid, new_tags) ==
    /\ uuid \in NoteIds(notes)
    /\ \E now \in Nows :
         /\ notes' = StoreNote(notes, edit_tags(NoteOf(uuid), new_tags, now))
         /\ clock' = now
         /\ UNCHANGED procVars
         /\ last' = [op |-> "edit_tags", uuid |-> uuid, new_tags |-> new_tags, now |-> now,
                     before |-> Some(NoteOf(uuid))]
    /\ UNCHANGED <<bookVars, nextId>>

\* the edit-note command
EditNoteCmd(args) ==
    /\ \E now1 \in Nows :
         \E now2 \in {t \in {now1, now1 + 1} : t <= MaxClock} :
           /\ notes' = edit_note_cmd(notes, args, now1, now2).notes
           /\ clock' = now2
           /\ UNCHANGED procVars
           /\ last' = [op |-> "edit-note", args |-> args, now |-> now2,
                       out |-> edit_note_cmd(notes, args, now1, now2).out,
                       before |-> IF Len(args) < 2 THEN None
                                  ELSE note_by_identifier(notes, args[1])]
    /\ UNCHANGED <<bookVars, nextId>>

NextNotes ==
    \/ \E text \in NoteTexts, tags \in TagListInputs : CreateNote(text, tags, MaxNotes)
    \/ \E text \in NoteTexts, tags \in TagListInputs : CreateNoteFails(text, tags)
    \/ \E args \in AddNoteArgs : AddNoteCmd(args, MaxNotes)
    \/ \E uuid \in 1..MaxNotes, tag \in TagInputs : NoteAddTag(uuid, tag)
    \/ \E uuid \in 1..MaxNotes, tag \in TagInputs : NoteRemoveTag(uuid, tag)
    \/ \E uuid \in 1..MaxNotes, new_tags \in TagListInputs : NoteEditTags(uuid, new_tags)
    \/ \E args \in EditNoteArgs : EditNoteCmd(args)

SpecNotes == Init /\ [][NextNotes]_vars

(***************************************************************************)
(* Claims about a Note's tags and timestamps                               *)
(***************************************************************************)
NoteMutators == {"add_tag", "remove_tag", "edit_tags", "edit-note"}

\* the last operation acted on a stored note, whose value before it is known
ActedOnNote == last.op \in NoteMutators /\ last.before # None

\* the note the last operation acted on, as it is now
Touched == NoteOf(last.before[1].uuid)

\* C6: for every stored note created_at <= updated_at, and add_tag,
\* remove_tag, edit_tags and the edit-note command leave the note's
\* created_at and id as they were.
C6_CreatedNeverAfterUpdated ==
    /\ \A i \in 1..Len(notes) : notes[i].created_at <= notes[i].updated_at
    /\ ActedOnNote =>
         /\ last.before[1].uuid \in NoteIds(notes)
         /\ Touched.created_at = last.before[1].created_at

\* C6 witness: a tag operation or an edit-note has moved a note's updated_at
\* past its created_at.
C6_Witness ==
    /\ ActedOnNote
    /\ last.before[1].created_at = last.before[1].updated_at
    /\ Touched.created_at < Touched.updated_at

\* C7: after edit_tags(t) the note's tags are t (the empty list for None) and
\* its updated_at is the clock value read by the call, which is never earlier
\* than the previous updated_at, whatever the tags were before, t included.
C7_EditTagsReplacesAndStamps ==
    last.op = "edit_tags" =>
      /\ Touched.tags = (IF last.new_tags = None THEN <<>> ELSE last.new_tags[1])
      /\ Touched.updated_at = last.now
      /\ last.before[1].updated_at <= Touched.updated_at

\* C7 witness: the second of two edit_tags(t): the tags were already t, the
\* note had been stamped after its creation, and it is stamped again, later.
C7_Witness ==
    /\ last.op = "edit_tags"
    /\ last.new_tags # None
    /\ last.before[1].tags = last.new_tags[1]
    /\ Touched.tags = last.new_tags[1]
    /\ last.before[1].created_at < last.before[1].updated_at
    /\ last.before[1].updated_at < Touched.updated_at

\* C8: add_tag of a tag already in the list and remove_tag of a tag not in the
\* list leave the note as it was; add_tag of a new tag appends it, remove_tag
\* of a present tag takes out its first occurrence and keeps the rest in
\* order, and both then stamp updated_at and keep created_at, text and id.
C8_TagNoOpsLeaveNoteUnchanged ==
    /\ (last.op = "add_tag" /\ Contains(last.before[1].tags, last.tag))
         => Touched = last.before[1]
    /\ (last.op = "remove_tag" /\ ~Contains(last.before[1].tags, last.tag))
         => Touched = last.before[1]
    /\ (last.op = "add_tag" /\ ~Contains(last.before[1].tags, last.tag))
         => Touched = [last.before[1] EXCEPT !.tags = last.before[1].tags \o <<last.tag>>,
                                             !.updated_at = last.now]
    /\ (last.op = "remove_tag" /\ Contains(last.before[1].tags, last.tag))
         => /\ \E k \in 1..Len(last.before[1].tags) :
                 /\ last.before[1].tags[k] = last.tag
                 /\ \A j \in 1..(k - 1) : last.before[1].tags[j] # last.tag
                 /\ Touched.tags = [j \in 1..(Len(last.before[1].tags) - 1) |->
                                       IF j < k THEN last.before[1].tags[j]
                                       ELSE last.before[1].tags[j + 1]]
            /\ Touched.updated_at = last.now
            /\ Touched.created_at = last.before[1].created_at
            /\ Touched.text = last.before[1].text
            /\ Touched.uuid = last.before[1].uuid

\* C8 witness: add_tag of a tag already present, called after the clock moved
\* on, left updated_at behind the clock.
C8_Witness ==
    /\ last.op = "add_tag"
    /\ Contains(last.before[1].tags, last.tag)
    /\ Touched.updated_at < last.now

\* C9: no tag value occurs twice in the tag list of any stored note.
C9_TagsDuplicateFree ==
    \A i \in 1..Len(notes) :
        \A j, k \in 1..Len(notes[i].tags) :
            notes[i].tags[j] = notes[i].tags[k] => j = k

(***************************************************************************)
(* State machine of the listings                                           *)
(***************************************************************************)
\* None, ["a"], ["B"], ["b", "a"]
ListedTagLists ==
    { None, Some(<< <<97>> >>), Some(<< <<66>> >>), Some(<< <<98>>, <<97>> >>) }

\* "x", ""
ListedTexts == { <<120>>, <<>> }

SortByInputs == {"created", "updated", "text", "tags", "title"}

\* notebook.get_all_notes(sort_by, reverse)
GetAllNotes(sort_by, reverse) ==
    /\ UNCHANGED procVars
    /\ last' = [op |-> "get_all_notes", sort_by |-> sort_by, reverse |-> reverse,
                ret |-> get_all_notes(notes, sort_by, reverse)]
    /\ UNCHANGED <<bookVars, noteVars>>

NextListing ==
    \/ \E text \in ListedTexts, tags \in ListedTagLists : CreateNote(text, tags, MaxListed)
    \/ \E text \in ListedTexts, tags \in ListedTagLists : CreateNoteFails(text, tags)
    \/ \E sort_by \in SortByInputs, reverse \in BOOLEAN : GetAllNotes(sort_by, reverse)

SpecListing == Init /\ [][NextListing]_vars

\* C10: in the list get_all_notes(sort_by = "tags", reverse) returns, for
\* reverse False and True, no note without tags stands before a note with a
\* tag, and the notes with tags stand in the order of their first tags,
\* lower-cased: ascending for reverse = False, descending for reverse = True.
C10_UntaggedLastBothDirections ==
    (last.op = "get_all_notes" /\ last.sort_by = "tags") =>
      \A p, q \in 1..Len(last.ret) :
        p < q =>
          /\ ~(Len(last.ret[p].tags) = 0 /\ Len(last.ret[q].tags) > 0)
          /\ (Len(last.ret[p].tags) > 0 /\ Len(last.ret[q].tags) > 0) =>
               IF last.reverse
               THEN ~StrLess(lower(last.ret[p].tags[1]), lower(last.ret[q].tags[1]))
               ELSE ~StrLess(lower(last.ret[q].tags[1]), lower(last.ret[p].tags[1]))

(***************************************************************************)
(* Numbered access and the list-notes command                              *)
(***************************************************************************)
\* NoteBook.get_all_notes(sort_by): reverse keeps its default, True
get_all_notes_default(ns, sort_by) == get_all_notes(ns, sort_by, TRUE)

\* NoteBook.get_note_id_by_number(number, sort_by)
get_note_id_by_number(ns, number, sort_by) ==
    IF get_note_by_number(ns, number, sort_by) # None
    THEN Some(get_note_by_number(ns, number, sort_by)[1].uuid)
    ELSE None

\* "a", "asc", "ascending"
ASCENDING_KEYWORDS == { <<97>>, <<97, 115, 99>>, <<97, 115, 99, 101, 110, 100, 105, 110, 103>> }

\* "d", "desc", "descending"
DESCENDING_KEYWORDS == { <<100>>, <<100, 101, 115, 99>>, <<100, 101, 115, 99, 101, 110, 100, 105, 110, 103>> }

\* the sort_by string a token of the command line stands for
SortName(token) ==
    IF token = <<99, 114, 101, 97, 116, 101, 100>> THEN "created"
    ELSE IF token = <<117, 112, 100, 97, 116, 101, 100>> THEN "updated"
    ELSE IF token = <<116, 101, 120, 116>> THEN "text"
    ELSE IF token = <<116, 97, 103, 115>> THEN "tags"
    ELSE "other"

\* token.startswith("sort=")
StartsWithSort(token) == Len(token) >= 5 /\ SubSeq(token, 1, 5) = <<115, 111, 114, 116, 61>>

\* list_notes: the sort column parsed from args ("created" when not given)
ListNotesSortBy(args) ==
    IF Len(args) = 0 THEN "created"
    ELSE IF StartsWithSort(args[1]) THEN SortName(SubSeq(args[1], 6, Len(args[1])))
    ELSE IF SortName(args[1]) # "other" THEN SortName(args[1])
    ELSE "created"

\* list_notes: the direction parsed from args, None when no direction is given
ListNotesReverse(args) ==
    IF Len(args) = 0 THEN None
    ELSE IF Len(args) > 1
    THEN (IF lower(args[2]) \in ASCENDING_KEYWORDS THEN Some(FALSE)
          ELSE IF lower(args[2]) \in DESCENDING_KEYWORDS THEN Some(TRUE)
          ELSE None)
    ELSE IF lower(args[1]) \in ASCENDING_KEYWORDS THEN Some(FALSE)
    ELSE IF lower(args[1]) \in DESCENDING_KEYWORDS THEN Some(TRUE)
    ELSE None

\* list_notes(args, notebook) before input_error: sorted() raises TypeError
\* for reverse = None; otherwise the notes of the table in their order, with
\* the direction the header shows.
list_notes(args, ns) ==
    IF ListNotesReverse(args) = None THEN Raise("TypeError")
    ELSE IF Len(ns) = 0 THEN Return([kind |-> "message", text |-> "No notes found."])
    ELSE Return([kind |-> "table",
                 notes |-> get_all_notes(ns, ListNotesSortBy(args), ListNotesReverse(args)[1]),
                 descending |-> ListNotesReverse(args)[1]])

\* the list-notes command: list_notes under input_error
list_notes_cmd(args, ns) ==
    IF list_notes(args, ns).exc = "None" THEN list_notes(args, ns)
    ELSE IF input_error(list_notes(args, ns).exc) = list_notes(args, ns).exc
    THEN list_notes(args, ns)
    ELSE Return([kind |-> "message", text |-> input_error(list_notes(args, ns).exc)])

MaxNumbered == 2     \* notes created while numbered access is explored

\* (text, tags) of the notes: ("b", None), ("A", ["a"]), ("b", ["B"]), ("A", None)
NumberedNotes ==
    { [text |-> <<98>>, tags |-> None], [text |-> <<65>>, tags |-> Some(<< <<97>> >>)],
      [text |-> <<98>>, tags |-> Some(<< <<66>> >>)], [text |-> <<65>>, tags |-> None] }

SortKeys == {"created", "updated", "text", "tags"}

\* list-notes argument lists: none; "text"; "sort=tags"; "updated";
\* "text" "a"; "D"; "sort=created" "desc"
ListNotesArgs ==
    { <<>>, << <<116, 101, 120, 116>> >>, << <<115, 111, 114, 116, 61, 116, 97, 103, 115>> >>, << <<117, 112, 100, 97, 116, 101, 100>> >>,
      << <<116, 101, 120, 116>>, <<97>> >>, << <<68>> >>, << <<115, 111, 114, 116, 61, 99, 114, 101, 97, 116, 101, 100>>, <<100, 101, 115, 99>> >> }

\* notebook.get_all_notes(sort_by)
GetAllNotesDefault(sort_by) ==
    /\ UNCHANGED procVars
    /\ last' = [op |-> "get_all_notes(sort_by)", sort_by |-> sort_by,
                ret |-> get_all_notes_default(notes, sort_by)]
    /\ UNCHANGED <<bookVars, noteVars>>

\* notebook.get_note_by_number(number, sort_by)
GetNoteByNumber(number, sort_by) ==
    /\ UNCHANGED procVars
    /\ last' = [op |-> "get_note_by_number", number |-> number, sort_by |-> sort_by,
                ret |-> get_note_by_number(notes, number, sort_by)]
    /\ UNCHANGED <<bookVars, noteVars>>

\* notebook.get_note_id_by_number(number, sort_by)
GetNoteIdByNumber(number, sort_by) ==
    /\ UNCHANGED procVars
    /\ last' = [op |-> "get_note_id_by_number", number |-> number, sort_by |-> sort_by,
                ret |-> get_note_id_by_number(notes, number, sort_by)]
    /\ UNCHANGED <<bookVars, noteVars>>

\* the list-notes command
ListNotesCmd(args) ==
    /\ UNCHANGED procVars
    /\ last' = [op |-> "list-notes", args |-> args, out |-> list_notes_cmd(args, notes)]
    /\ UNCHANGED <<bookVars, noteVars>>

NextNumbering ==
    \/ \E n \in NumberedNotes : CreateNote(n.text, n.tags, MaxNumbered)
    \/ \E sort_by \in SortKeys : GetAllNotesDefault(sort_by)
    \/ \E number \in (0 - 1)..(MaxNumbered + 1), sort_by \in SortKeys :
           GetNoteByNumber(number, sort_by)
    \/ \E number \in (0 - 1)..(MaxNumbered + 1), sort_by \in SortKeys :
           GetNoteIdByNumber(number, sort_by)
    \/ \E args \in ListNotesArgs : ListNotesCmd(args)

SpecNumbering == Init /\ [][NextNumbering]_vars

\* the notes of a list stand in ascending order of their keys
Ascending(list, sort_by) ==
    \A p, q \in 1..Len(list) :
        p < q => ~StrLess(SortKey(list[q], sort_by), SortKey(list[p], sort_by))

\* the notes of a list stand in descending order of their keys
Descending(list, sort_by) ==
    \A p, q \in 1..Len(list) :
        p < q => ~StrLess(SortKey(list[p], sort_by), SortKey(list[q], sort_by))

\* the order a listing has when the caller gives no direction
DefaultOrder(list, sort_by) ==
    IF sort_by \in {"text", "tags"} THEN Ascending(list, sort_by)
    ELSE Descending(list, sort_by)

\* C11: with no direction given, get_all_notes(sort_by) is newest-first for
\* created and updated and ascending for text and tags; number 1 of
\* get_note_by_number under sort_by = "text" is a note whose lower-cased text
\* no other note's precedes; and the list-notes command without a direction
\* argument shows a table in that same default order.
C11_DefaultDirectionPerKey ==
    /\ last.op = "get_all_notes(sort_by)" => DefaultOrder(last.ret, last.sort_by)
    /\ (last.op = "get_note_by_number" /\ last.number = 1 /\ last.sort_by = "text"
          /\ Len(notes) > 0)
         => /\ last.ret # None
            /\ \A i \in 1..Len(notes) :
                 ~StrLess(lower(notes[i].text), lower(last.ret[1].text))
    /\ (last.op = "list-notes" /\ ListNotesReverse(last.args) = None /\ Len(notes) > 0)
         => /\ last.out.exc = "None"
            /\ last.out.val.kind = "table"
            /\ DefaultOrder(last.out.val.notes, ListNotesSortBy(last.args))

\* the notes that stand before `note` in every descending listing by sort_by
StrictlyBefore(note, sort_by) ==
    {i \in 1..Len(notes) : StrLess(SortKey(note, sort_by), SortKey(notes[i], sort_by))}

\* the notes with the key of `note`
SameKey(note, sort_by) ==
    {i \in 1..Len(notes) : SortKey(notes[i], sort_by) = SortKey(note, sort_by)}

\* `note` is a stored note that can stand at place n of the listing
StandsAt(note, n, sort_by) ==
    /\ \E i \in 1..Len(notes) : notes[i] = note
    /\ Cardinality(StrictlyBefore(note, sort_by)) < n
    /\ n <= Cardinality(StrictlyBefore(note, sort_by)) + Cardinality(SameKey(note, sort_by))

\* C12: get_note_by_number(n, sort_by) gives, for 1 <= n <= number of notes,
\* the note at place n (1-based) of the list get_all_notes(sort_by) gives for
\* the notebook as it is now, and None for n <= 0 and n > number of notes;
\* get_note_id_by_number gives that note's id, or None in the same cases.
C12_NumberIsPlaceInFreshListing ==
    /\ last.op = "get_note_by_number" =>
         IF 1 <= last.number /\ last.number <= Len(notes)
         THEN /\ last.ret # None
              /\ last.ret[1] = get_all_notes_default(notes, last.sort_by)[last.number]
              /\ StandsAt(last.ret[1], last.number, last.sort_by)
         ELSE last.ret = None
    /\ last.op = "get_note_id_by_number" =>
         IF 1 <= last.number /\ last.number <= Len(notes)
         THEN /\ last.ret # None
              /\ last.ret[1] = get_all_notes_default(notes, last.sort_by)[last.number].uuid
              /\ StandsAt(NoteOf(last.ret[1]), last.number, last.sort_by)
         ELSE last.ret = None

\* C12 witness: number 2 of two notes listed by creation time is the note
\* created first, an earlier one; and number 3 is not found.
C12_Witness ==
    /\ last.op = "get_note_by_number"
    /\ last.number = 2
    /\ last.sort_by = "created"
    /\ Len(notes) = 2
    /\ last.ret # None
    /\ last.ret[1] = notes[1]
    /\ notes[1].created_at < notes[2].created_at

(***************************************************************************)
(* Search by tags                                                          *)
(***************************************************************************)
\* [str(tag).lower() for tag in tags]
LowerAll(tags) == [i \in 1..Len(tags) |-> lower(tags[i])]

\* search_by_tags keeping the notes that have any of the tags
SearchByTagsAnyTag(ns, tags) ==
    IF Len(tags) = 0 THEN <<>>
    ELSE SelectSeq(ns, LAMBDA note :
             \E k \in 1..Len(tags) : Contains(LowerAll(note.tags), LowerAll(tags)[k]))

\* NoteBook.search_by_tags(tags)
search_by_tags(ns, tags) ==
    IF Len(tags) = 0 THEN <<>>
    ELSE SelectSeq(ns, LAMBDA note :
             \A k \in 1..Len(tags) : Contains(LowerAll(note.tags), LowerAll(tags)[k]))

\* tags of the searched notes: None, ["A"], ["a", "b"], ["ab"]
SearchedTagLists ==
    { None, Some(<< <<65>> >>), Some(<< <<97>>, <<98>> >>), Some(<< <<97, 98>> >>) }

\* requests: [], ["a"], ["A", "B"], ["b", "a"], ["ab"], ["a", "a"], ["c"]
TagRequests ==
    { <<>>, << <<97>> >>, << <<65>>, <<66>> >>, << <<98>>, <<97>> >>, << <<97, 98>> >>,
      << <<97>>, <<97>> >>, << <<99>> >> }

\* notebook.search_by_tags(tags)
SearchByTags(tags) ==
    /\ UNCHANGED procVars
    /\ last' = [op |-> "search_by_tags", tags |-> tags, ret |-> search_by_tags(notes, tags)]
    /\ UNCHANGED <<bookVars, noteVars>>

NextSearch ==
    \/ \E tags \in SearchedTagLists : CreateNote(<<120>>, tags, MaxNumbered)
    \/ \E tags \in TagRequests : SearchByTags(tags)

SpecSearch == Init /\ [][NextSearch]_vars

\* every requested tag equals, ignoring case, some tag of the note
HasEveryTag(note, tags) ==
    \A k \in 1..Len(tags) : \E j \in 1..Len(note.tags) : lower(note.tags[j]) = lower(tags[k])

\* C13: search_by_tags(tags) returns exactly the stored notes of which every
\* requested tag is, ignoring case, a whole tag, each once, and nothing for
\* an empty request.
C13_SearchByTagsIsCaseInsensitiveAnd ==
    last.op = "search_by_tags" =>
      /\ \A i \in 1..Len(notes) :
           (Len(last.tags) > 0 /\ HasEveryTag(notes[i], last.tags))
             <=> \E k \in 1..Len(last.ret) : last.ret[k] = notes[i]
      /\ \A k \in 1..Len(last.ret) :
           /\ \E i \in 1..Len(notes) : notes[i] = last.ret[k]
           /\ \A j \in 1..Len(last.ret) : last.ret[j].uuid = last.ret[k].uuid => j = k
      /\ Len(last.tags) = 0 => last.ret = <<>>

\* C13 witness: the request ["A", "B"] finds the note tagged ["a", "b"] and
\* leaves out a note tagged ["A"] only.
C13_Witness ==
    /\ last.op = "search_by_tags"
    /\ last.tags = << <<65>>, <<66>> >>
    /\ Len(last.ret) = 1
    /\ last.ret[1].tags = << <<97>>, <<98>> >>
    /\ \E i \in 1..Len(notes) : notes[i].tags = << <<65>> >>

(***************************************************************************)
(* Deletions and their confirmation                                        *)
(***************************************************************************)
\* str.strip()
RECURSIVE strip(_)
strip(text) ==
    IF Len(text) = 0 THEN text
    ELSE IF text[1] \in {32, 9, 10, 13} THEN strip(Tail(text))
    ELSE IF text[Len(text)] \in {32, 9, 10, 13} THEN strip(SubSeq(text, 1, Len(text) - 1))
    ELSE text

\* confirm_action taking every answer that is not empty for a yes
ConfirmAnyAnswer(response, default) ==
    IF Len(lower(strip(response))) = 0 THEN default ELSE TRUE

\* confirm_action(message, default) when input() gives `response`;
\* the answers taken for yes are 'y', 'yes', 'так', 'т'
confirm_action(response, default) ==
    IF Len(lower(strip(response))) = 0 THEN default
    ELSE lower(strip(response)) \in
           { <<121>>, <<121, 101, 115>>, <<1090, 1072, 1082>>, <<1090>> }

\* confirm_delete(entity_type, entity_name) when input() gives `response`
confirm_delete(response) == confirm_action(response, FALSE)

\* delete_contact(args, book) under input_error, args a list of names;
\* `prompted` tells whether confirm_delete was called.
delete_contact(data, args, response) ==
    IF Len(args) < 1 THEN [data |-> data, out |-> "requires a name", prompted |-> FALSE]
    ELSE IF find(data, args[1]) = None
    THEN [data |-> data, out |-> "not found", prompted |-> FALSE]
    ELSE IF ~confirm_delete(response)
    THEN [data |-> data, out |-> "Deletion cancelled.", prompted |-> TRUE]
    ELSE [data |-> delete(data, args[1]).data, out |-> "successfully deleted",
          prompted |-> TRUE]

\* delete_note(args, notebook) under input_error
delete_note_cmd(ns, args, response) ==
    IF Len(args) = 0
    THEN [notes |-> ns, out |-> input_error("ValueError"), prompted |-> FALSE]
    ELSE
      LET identifier == args[1]
          note_id == IF isdigit(identifier)
                     THEN get_note_id_by_number(ns, int(identifier).val, "created")
                     ELSE IF find_note_by_text(ns, identifier) # None
                     THEN Some(find_note_by_text(ns, identifier)[1].uuid)
                     ELSE None
          note == IF isdigit(identifier)
                  THEN (IF note_id # None
                        THEN get_note_by_number(ns, int(identifier).val, "created")
                        ELSE None)
                  ELSE find_note_by_text(ns, identifier)
      IN IF note = None \/ note_id = None
         THEN [notes |-> ns, out |-> "not found", prompted |-> FALSE]
         ELSE IF ~confirm_delete(response)
         THEN [notes |-> ns, out |-> "Deletion cancelled.", prompted |-> TRUE]
         ELSE [notes |-> notebook_delete_note(ns, note_id[1]),
               out |-> IF note_id[1] \in NoteIds(ns) THEN "deleted successfully"
                       ELSE "Failed to delete note.",
               prompted |-> TRUE]

\* names given to delete: the two that are added and one that never is
DeleteNames == Names \cup {"cy"}

\* 08.06.1990, 05.06.1985
DeletedBirthdays == { <<8, 6, 1990>>, <<5, 6, 1985>> }

\* answers typed at the prompt: "y", " YES ", "", "n", "yep"
ConfirmResponses ==
    { <<121>>, <<32, 89, 69, 83, 32>>, <<>>, <<110>>, <<121, 101, 112>> }

\* delete-contact argument lists: none, and each name
DeleteContactArgs == { <<>> } \cup { <<name>> : name \in DeleteNames }

\* book.delete(name); a KeyError leaves the book as it is
BookDelete(name) ==
    /\ book' = delete(book, name).data
    /\ UNCHANGED procVars
    /\ last' = [op |-> "delete", name |-> name, before |-> book,
                exc |-> delete(book, name).exc, val |-> delete(book, name).val]
    /\ UNCHANGED <<importDate, today, noteVars>>

\* the delete-contact command; the answer is read only when it prompts
DeleteContactCmd(args, response) ==
    /\ \E done \in {delete_contact(book, args, response)} :
         /\ book' = done.data
         /\ UNCHANGED procVars
         /\ last' = [op |-> "delete-contact", args |-> args, prompted |-> done.prompted,
                     response |-> IF done.prompted THEN Some(response) ELSE None,
                     out |-> done.out, before |-> book, notes_before |-> notes]
    /\ UNCHANGED <<importDate, today, noteVars>>

NextDelete ==
    \/ \E name \in DeleteNames : AddRecord(name)
    \/ \E name \in DeleteNames, birthday \in DeletedBirthdays : AddBirthdayCmd(name, birthday)
    \/ \E name \in DeleteNames : BookDelete(name)
    \/ \E args \in DeleteContactArgs, response \in ConfirmResponses :
           DeleteContactCmd(args, response)

SpecDelete == Init /\ [][NextDelete]_vars

\* C14: delete(name) of a name that is no key raises KeyError and leaves the
\* book as it was; of a key it returns the record stored under it, removes
\* that entry only and leaves the other entries as they were, in their order;
\* the delete-contact command for a missing name answers 'not found' and
\* leaves the book as it was.
C14_DeleteRemovesExactlyTheNamedEntry ==
    /\ last.op = "delete" =>
         IF \E i \in 1..Len(last.before) : last.before[i].name = last.name
         THEN /\ last.exc = "None"
              /\ \E i \in 1..Len(last.before) :
                   /\ last.before[i].name = last.name
                   /\ last.val = Some(last.before[i])
                   /\ Len(book) = Len(last.before) - 1
                   /\ \A j \in 1..Len(book) :
                        book[j] = IF j < i THEN last.before[j] ELSE last.before[j + 1]
         ELSE /\ last.exc = "KeyError"
              /\ book = last.before
    /\ (last.op = "delete-contact" /\ Len(last.args) > 0
          /\ \A i \in 1..Len(last.before) : last.before[i].name # last.args[1])
         => /\ last.out = "not found"
            /\ book = last.before

\* C14 witness: the second of three entries has been deleted and returned.
C14_Witness ==
    /\ last.op = "delete"
    /\ Len(last.before) = 3
    /\ last.before[2].name = last.name
    /\ last.exc = "None"
    /\ Len(book) = 2

\* delete-note argument lists: none, "1", "2", "0", "x", "z"
DeleteNoteArgs ==
    { <<>>, << <<49>> >>, << <<50>> >>, << <<48>> >>, << <<120>> >>, << <<122>> >> }

\* the delete-note command; the answer is read only when it prompts
DeleteNoteCmd(args, response) ==
    /\ \E done \in {delete_note_cmd(notes, args, response)} :
         /\ notes' = done.notes
         /\ UNCHANGED procVars
         /\ last' = [op |-> "delete-note", args |-> args, prompted |-> done.prompted,
                     response |-> IF done.prompted THEN Some(response) ELSE None,
                     out |-> done.out, before |-> book, notes_before |-> notes]
    /\ UNCHANGED <<bookVars, clock, nextId>>

NextConfirm ==
    \/ \E name \in Names : AddRecord(name)
    \/ \E text \in { <<120>>, <<120, 121>> } : CreateNote(text, None, MaxNumbered)
    \/ \E args \in DeleteContactArgs, response \in ConfirmResponses :
           DeleteContactCmd(args, response)
    \/ \E args \in DeleteNoteArgs, response \in ConfirmResponses :
           DeleteNoteCmd(args, response)

SpecConfirm == Init /\ [][NextConfirm]_vars

\* the answer, without the white space around it and in lower case, is one of
\* 'y', 'yes', 'так', 'т'
Affirmative(response) ==
    \E yes \in { <<121>>, <<121, 101, 115>>, <<1090, 1072, 1082>>, <<1090>> } :
        \E before, after \in 0..Len(response) :
            /\ before + Len(yes) + after = Len(response)
            /\ \A i \in 1..Len(response) :
                 IF i <= before \/ i > before + Len(yes)
                 THEN response[i] \in {32, 9, 10, 13}
                 ELSE response[i] \in {yes[i - before], yes[i - before] - 32}

Spelling(name) ==
    IF name = "ann" THEN <<97, 110, 110>>
    ELSE IF name = "bob" THEN <<98, 111, 98>>
    ELSE IF name = "cy" THEN <<99, 121>>
    ELSE IF name = "  " THEN <<32, 32>>
    ELSE <<>>

\* a Python set of records (each known by its key), and Python's None
PySet(items) == [type |-> "set", items |-> items]
PyNone == [type |-> "NoneType"]

\* re.search(pattern, text) is not None, for a pattern of letters and digits
\* (found where it occurs) and for "(", which does not compile
re_search(pattern, text) ==
    IF pattern = <<40>> THEN Raise("re.error") ELSE Return(HasFragment(text, pattern))

\* AddressBook.search_contacts_by_name(name)
search_contacts_by_name(data, name) ==
    IF \E i \in 1..Len(data) : re_search(lower(name), lower(Spelling(data[i].name))).exc # "None"
    THEN Raise("re.error")
    ELSE Return(PySet({data[i].name : i \in
             {j \in 1..Len(data) : re_search(lower(name), lower(Spelling(data[j].name))).val}}))

\* AddressBook.search_contacts_by_phone(phone)
search_contacts_by_phone(data, phone) ==
    IF \E i \in 1..Len(data) : \E k \in 1..Len(data[i].phones) :
           re_search(phone, data[i].phones[k]).exc # "None"
    THEN Raise("re.error")
    ELSE Return(PySet({data[i].name : i \in
             {j \in 1..Len(data) : \E k \in 1..Len(data[j].phones) :
                  re_search(phone, data[j].phones[k]).val}}))

\* AddressBook.search_contacts_by_email(email): no record of the model has an
\* email, the loop appends nothing
search_contacts_by_email(data, email) == Return(PySet({}))

\* AddressBook.search_contacts_by_address(address): the body is `pass`
search_contacts_by_address(data, address) == Return(PyNone)

\* a.union(b) for a set a
union(a, b) ==
    IF b.type # "set" THEN Raise("TypeError") ELSE Return(PySet(a.items \cup b.items))

\* search_contacts(args, book), which has no input_error around it
search_contacts(args, data) ==
    IF Len(args) < 1 THEN Return([kind |-> "message", text |-> "requires a value"])
    ELSE IF search_contacts_by_name(data, args[1]).exc # "None"
    THEN search_contacts_by_name(data, args[1])
    ELSE IF search_contacts_by_phone(data, args[1]).exc # "None"
    THEN search_contacts_by_phone(data, args[1])
    ELSE
      LET by_name == search_contacts_by_name(data, args[1]).val
          by_phone == search_contacts_by_phone(data, args[1]).val
          by_email == search_contacts_by_email(data, args[1]).val
          by_address == search_contacts_by_address(data, args[1]).val
          u1 == union(by_name, by_phone)
          u2 == union(u1.val, by_email)
          u3 == union(u2.val, by_address)
      IN IF u1.exc # "None" THEN u1
         ELSE IF u2.exc # "None" THEN u2
         ELSE IF u3.exc # "None" THEN u3
         ELSE IF u3.val.items = {} THEN Return([kind |-> "message", text |-> "No contacts found."])
         ELSE Return([kind |-> "table", names |-> u3.val.items])

\* get_output_by_command(command, args, book, notebook) for the commands
\* whose handlers are modelled; `command` is the member of Command compared
\* with.  env holds what the handler reads from outside: the answer at a
\* prompt, datetime.now(), the uuid4 drawn, the dates.  It gives the
\* exception that leaves it ("None": it returned), the output, both
\* containers afterwards and whether the loop is to end.
get_output_by_command(command, args, data, ns, env) ==
    LET same == [exc |-> "None", out |-> "", data |-> data, notes |-> ns, exit |-> FALSE]
    IN IF command \in {"EXIT_1", "EXIT_2"} THEN [same EXCEPT !.out = "Goodbye!", !.exit = TRUE]
       ELSE IF command = "HELLO" THEN [same EXCEPT !.out = "How can I help you?"]
       ELSE IF command = "ADD_CONTACT"
       THEN (IF Len(args) < 2 THEN [same EXCEPT !.out = "requires a name and a phone"]
             ELSE [same EXCEPT !.out = add_contact(data, args[1], args[2]).out,
                               !.data = add_contact(data, args[1], args[2]).data])
       ELSE IF command = "SEARCH_CONTACTS"
       THEN [same EXCEPT !.exc = search_contacts(args, data).exc,
                         !.out = IF search_contacts(args, data).exc = "None"
                                 THEN search_contacts(args, data).val.kind ELSE ""]
       ELSE IF command = "DELETE_CONTACT"
       THEN [same EXCEPT !.out = delete_contact(data, args, env.response).out,
                         !.data = delete_contact(data, args, env.response).data]
       ELSE IF command = "SHOW_UPCOMING_BIRTHDAYS"
       THEN [same EXCEPT !.out =
                 show_upcoming_birthdays(args, data, env.import_date, env.today).kind]
       ELSE IF command = "ADD_NOTE"
       THEN [same EXCEPT !.out = add_note_cmd(ns, env.uuid, args, env.now).out,
                         !.notes = add_note_cmd(ns, env.uuid, args, env.now).notes]
       ELSE IF command = "LIST_NOTES"
       THEN [same EXCEPT !.exc = list_notes_cmd(args, ns).exc,
                         !.out = IF list_notes_cmd(args, ns).exc = "None"
                                 THEN list_notes_cmd(args, ns).val.kind ELSE ""]
       ELSE IF command = "DELETE_NOTE"
       THEN [same EXCEPT !.out = delete_note_cmd(ns, args, env.response).out,
                         !.notes = delete_note_cmd(ns, args, env.response).notes]
       ELSE [same EXCEPT !.out = "Unknown command. Please try again."]

\* the argument lists tried with each command
DispatchArgs(command) ==
    IF command = "ADD_CONTACT"
    THEN { <<>>, <<"ann">>, <<"ann", Repeat(49, 10)>>, <<"bob", <<49, 50, 51>>>>,
           <<"bob", Repeat(50, 10), Repeat(49, 10)>> }
    ELSE IF command = "SEARCH_CONTACTS"
    THEN { <<>>, << <<97, 110>> >>, << <<49, 49>> >>, << <<40>> >>, << <<122>>, <<122>> >> }
    ELSE IF command = "DELETE_CONTACT" THEN { <<>>, <<"ann">>, <<"cy">> }
    ELSE IF command = "SHOW_UPCOMING_BIRTHDAYS" THEN DaysArgs
    ELSE IF command = "ADD_NOTE" THEN { <<>>, << <<120>> >>, << <<32>> >> }
    ELSE IF command = "LIST_NOTES" THEN { <<>>, << <<116, 101, 120, 116>> >>, << <<100>> >> }
    ELSE IF command = "DELETE_NOTE" THEN { <<>>, << <<49>> >>, << <<57>> >> }
    ELSE { <<>>, << <<120>> >> }

DispatchedCommands ==
    { "EXIT_1", "HELLO", "ADD_CONTACT", "SEARCH_CONTACTS", "DELETE_CONTACT",
      "SHOW_UPCOMING_BIRTHDAYS", "ADD_NOTE", "LIST_NOTES", "DELETE_NOTE", "UNKNOWN" }

\* one round of the loop's get_output_by_command; there is none after the
\* round that asked to exit
Dispatch(command, args, response) ==
    /\ ~(last.op = "command" /\ last.exit)
    /\ (command = "ADD_NOTE" /\ Len(args) > 0) => nextId < MaxNumbered
    /\ (command = "ADD_CONTACT" /\ Len(args) > 1 /\ args[1] \in Keys(book))
         => Len(PhonesOf(args[1])) < MaxPhones
    /\ \E now \in Nows :
         \E done \in {get_output_by_command(command, args, book, notes,
                          [response |-> response, now |-> now, uuid |-> nextId + 1,
                           import_date |-> importDate, today |-> today])} :
           /\ book' = done.data
           /\ notes' = done.notes
           /\ nextId' = IF Len(done.notes) > Len(notes) THEN nextId + 1 ELSE nextId
           /\ clock' = IF Len(done.notes) > Len(notes) THEN now ELSE clock
           /\ UNCHANGED procVars
           /\ last' = [op |-> "command", command |-> command, args |-> args,
                       exc |-> done.exc, out |-> done.out, exit |-> done.exit]
    /\ UNCHANGED <<importDate, today>>

\* book.search_contacts_by_address(query)
SearchContactsByAddress(query) ==
    /\ UNCHANGED procVars
    /\ last' = [op |-> "search_contacts_by_address", query |-> query,
                ret |-> search_contacts_by_address(book, query)]
    /\ UNCHANGED <<bookVars, noteVars>>

NextDispatch ==
    \/ \E command \in DispatchedCommands :
         \E args \in DispatchArgs(command), response \in { <<121>>, <<>> } :
           Dispatch(command, args, response)
    \/ \E query \in { <<97, 110>>, <<>> } : SearchContactsByAddress(query)

SpecDispatch == Init /\ [][NextDispatch]_vars

\* C16: whatever the command, its arguments and the containers,
\* get_output_by_command returns a string: no exception leaves it.
C16_NoExceptionLeavesDispatch ==
    last.op = "command" => (last.exc = "None" /\ last.out # "")

\* C20: search_contacts_by_address returns an empty collection of records
\* for every query and book, and the contact-search command, which unites it
\* with the other three results, returns its output.
C20_SearchByAddressReturnsEmpty ==
    /\ last.op = "search_contacts_by_address" =>
         (last.ret.exc = "None" /\ last.ret.val = PySet({}))
    /\ (last.op = "command" /\ last.command = "SEARCH_CONTACTS" /\ Len(last.args) > 0
          /\ last.args[1] # <<40>>)
         => last.exc = "None"

(***************************************************************************)
(* What input_error hands back for a failing handler (decorators.py)       *)
(***************************************************************************)
\* The message Phone.__init__ puts into its ValueError.
PhoneMessage == "Phone number must be 10 digits and contain only numbers"

\* The message Birthday.__init__ puts into its ValueError.
BirthdayMessage == "Invalid date format. Use DD.MM.YYYY format."

\* The message Name.__init__ puts into its ValueError.
NameMessage == "Name cannot be empty"

\* inner(*args): the wrapped function returns value, or raises the
\* exception class `raised` carrying `message`.  The except clauses do not
\* bind the exception, so the message is not part of what is returned.
inner(raised, message, value) ==
    IF raised = "None" THEN Return(value)
    ELSE IF raised = "ValueError" THEN Return("Enter the argument for the command")
    ELSE IF raised = "KeyError" THEN Return("Contact not found")
    ELSE IF raised = "IndexError" THEN Return("Enter the argument for the command")
    ELSE IF raised = "AttributeError" THEN Return("Contact not found")
    ELSE [exc |-> raised, val |-> message]

ExceptionClasses ==
    { "None", "ValueError", "KeyError", "IndexError", "AttributeError",
      "RuntimeError", "TypeError" }

ExceptionMessages == { PhoneMessage, BirthdayMessage, NameMessage, "Test error" }

\* a decorated function is called; it returns "Success" or raises
CallWrapped(raised, message) ==
    /\ UNCHANGED procVars
    /\ last' = [op |-> "wrapped", raised |-> raised, message |-> message,
                result |-> inner(raised, message, "Success")]
    /\ UNCHANGED <<bookVars, noteVars>>

NextErrors ==
    \/ \E raised \in ExceptionClasses, message \in ExceptionMessages :
           CallWrapped(raised, message)
    \/ \E name \in NameInputs, phone \in RawPhones : AddContactCmd(name, phone)
    \/ \E name \in Names, old_phone, new_phone \in RawPhones :
           UpdateContactCmd(name, old_phone, new_phone)

SpecErrors == Init /\ [][NextErrors]_vars

\* the text holds the message, alone or after a lead-in
MessageIn(text, message) ==
    \E lead \in { "", "Error: ", "Invalid input: " } : text = lead \o message

\* C17: a validation error carrying message m comes back to the user as a
\* string containing m; KeyError and AttributeError come back as "Contact not
\* found"; a normal result is passed through; another kind of exception is
\* re-raised.  add-contact with a phone that Phone rejects answers with
\* Phone's message.
C17_ValidationMessageReachesTheUser ==
    /\ last.op = "wrapped" =>
         /\ last.raised = "ValueError" =>
              (last.result.exc = "None" /\ MessageIn(last.result.val, last.message))
         /\ last.raised \in {"KeyError", "AttributeError"} =>
              last.result = Return("Contact not found")
         /\ last.raised = "None" => last.result = Return("Success")
         /\ last.raised \in {"RuntimeError", "TypeError"} =>
              last.result.exc = last.raised
    /\ (last.op = "add-contact" /\ last.name # ""
          /\ Phone(last.phone).exc = "ValueError"
          /\ find_phone([phones |-> last.before], last.phone) = 0)
         => MessageIn(last.out, PhoneMessage)

(***************************************************************************)
(* The interactive loop and the saves on its way out (main.py)             *)
(***************************************************************************)
\* What a save can do: write the file ("None"), fail in open() with OSError
\* or its subclass PermissionError, or fail in pickle.dump with
\* pickle.PicklingError.
SaveOutcomes == { "None", "OSError", "PermissionError", "PicklingError" }

\* except (IOError, OSError, PermissionError); IOError is OSError
CaughtBySave == { "IOError", "OSError", "PermissionError" }

\* save_all_data() with _book and _notebook as __main__ sets them (neither
\* is None); outcomes = <<what save_data does, what save_notes does>>.  It
\* gives the saves attempted and the exception that leaves it.
save_all_data(outcomes) ==
    IF outcomes[1] \notin CaughtBySave \cup {"None"}
    THEN [attempts |-> <<"book">>, exc |-> outcomes[1]]
    ELSE [attempts |-> <<"book", "notes">>,
          exc |-> IF outcomes[2] \in CaughtBySave \cup {"None"}
                  THEN "None" ELSE outcomes[2]]

\* the commands typed in the runs of the loop
LoopCommands == { "EXIT_1", "ADD_CONTACT", "SEARCH_CONTACTS", "ADD_NOTE" }

\* the signals setup_signal_handlers installs signal_handler for
Signals == { "SIGINT", "SIGTERM", "SIGHUP" }

\* one round of the loop: a recognised command is read and dispatched.  An
\* exception from it is caught by the outer except; that and is_exit both
\* lead to the finally clause.
Round(command, args, outcomes) ==
    /\ pc = "prompt"
    /\ (command = "ADD_NOTE" /\ Len(args) > 0) => nextId < MaxNotes
    /\ (command = "ADD_CONTACT" /\ Len(args) > 1 /\ args[1] \in Keys(book))
         => Len(PhonesOf(args[1])) < MaxPhones
    /\ \E done \in {get_output_by_command(command, args, book, notes,
                        [response |-> <<>>, now |-> clock + 1, uuid |-> nextId + 1,
                         import_date |-> importDate, today |-> today])} :
         /\ book' = done.data
         /\ notes' = done.notes
         /\ nextId' = IF Len(done.notes) > Len(notes) THEN nextId + 1 ELSE nextId
         /\ clock' = IF Len(done.notes) > Len(notes) THEN clock + 1 ELSE clock
         /\ \E final \in {save_all_data(outcomes)} :
              IF done.exc # "None" \/ done.exit
              THEN /\ saves' = saves \o final.attempts
                   /\ pc' = IF final.exc # "None" THEN "raised" ELSE "returned"
                   /\ last' = [op |-> "round", command |-> command, exc |-> done.exc,
                               calls |-> <<final>>]
              ELSE /\ UNCHANGED procVars
                   /\ last' = [op |-> "round", command |-> command, exc |-> done.exc,
                               calls |-> <<>>]
    /\ UNCHANGED <<importDate, today>>

\* a line with unclosed quotes, or a command that is not recognised: continue
Skipped ==
    /\ pc = "prompt"
    /\ last' = [op |-> "skipped", calls |-> <<>>]
    /\ UNCHANGED <<bookVars, noteVars, procVars>>

\* Ctrl+D at the prompt: input() raises EOFError, print_interrupted_message
\* saves, then break and the finally clause.  An exception out of
\* print_interrupted_message is caught by the outer except.
EndOfInput(outcomes1, outcomes2) ==
    /\ pc = "prompt"
    /\ \E first \in {save_all_data(outcomes1)}, final \in {save_all_data(outcomes2)} :
         /\ saves' = saves \o first.attempts \o final.attempts
         /\ pc' = IF final.exc # "None" THEN "raised" ELSE "returned"
         /\ last' = [op |-> "EOFError", calls |-> <<first, final>>]
    /\ UNCHANGED <<bookVars, noteVars>>

\* a signal arrives while the loop waits in input(): signal_handler saves and
\* calls exit(0); SystemExit passes the outer except and runs the finally
\* clause.  An exception out of signal_handler's save is raised in input()
\* instead and is caught by the outer except.
SignalHandler(signum, outcomes1, outcomes2) ==
    /\ pc = "prompt"
    /\ \E first \in {save_all_data(outcomes1)}, final \in {save_all_data(outcomes2)} :
         /\ saves' = saves \o first.attempts \o final.attempts
         /\ pc' = IF final.exc # "None" THEN "raised"
                  ELSE IF first.exc = "None" THEN "SystemExit"
                  ELSE "returned"
         /\ last' = [op |-> "signal", signum |-> signum, calls |-> <<first, final>>]
    /\ UNCHANGED <<bookVars, noteVars>>

\* the interpreter shuts down: atexit runs save_all_data, whose exception is
\* printed and dropped, and the process is gone
AtExit(outcomes) ==
    /\ pc \in {"returned", "raised", "SystemExit"}
    /\ \E final \in {save_all_data(outcomes)} :
         /\ saves' = saves \o final.attempts
         /\ last' = [op |-> "atexit", calls |-> <<final>>]
    /\ pc' = "exited"
    /\ UNCHANGED <<bookVars, noteVars>>

NextShutdown ==
    \/ \E command \in LoopCommands :
         \E args \in DispatchArgs(command), outcomes \in SaveOutcomes \X SaveOutcomes :
           Round(command, args, outcomes)
    \/ Skipped
    \/ \E outcomes1, outcomes2 \in SaveOutcomes \X SaveOutcomes :
           EndOfInput(outcomes1, outcomes2)
    \/ \E signum \in Signals :
         \E outcomes1, outcomes2 \in SaveOutcomes \X SaveOutcomes :
           SignalHandler(signum, outcomes1, outcomes2)
    \/ \E outcomes \in SaveOutcomes \X SaveOutcomes : AtExit(outcomes)

SpecShutdown == Init /\ [][NextShutdown]_vars

\* the elements of a sequence
Range(s) == { s[i] : i \in 1..Len(s) }

\* C18: however the loop ends (exit command, end of input at the prompt, a
\* signal, an exception out of a command), when the process is gone a save of
\* the address book and a save of the notebook have both been attempted.
C18_BothSavesAttemptedBeforeExit ==
    pc = "exited" => {"book", "notes"} \subseteq Range(saves)

\* C19: in every call of save_all_data, whatever save_data raises, save_notes
\* is attempted as well, and no exception leaves save_all_data.
C19_NoSaveFailureLeavesSaveAllData ==
    last.op \in {"round", "skipped", "EOFError", "signal", "atexit"} =>
        \A i \in 1..Len(last.calls) :
            /\ last.calls[i].attempts = <<"book", "notes">>
            /\ last.calls[i].exc = "None"

(***************************************************************************)
(* The text of the stored notes under the note commands                    *)
(***************************************************************************)
\* add-note argument lists: "x"; " "; ""; "y" "a"
TextAddNoteArgs ==
    { << <<120>> >>, << <<32>> >>, << <<>> >>, << <<121>>, <<97>> >> }

\* edit-note argument lists: "1" "z"; "1" " "; "1" ""; "x" " " "a"; "9" "z"
TextEditNoteArgs ==
    { << <<49>>, <<122>> >>, << <<49>>, <<32>> >>, << <<49>>, <<>> >>,
      << <<120>>, <<32>>, <<97>> >>, << <<57>>, <<122>> >> }

NextNoteText ==
    \/ \E args \in TextAddNoteArgs : AddNoteCmd(args, MaxNumbered)
    \/ \E args \in TextEditNoteArgs : EditNoteCmd(args)
    \/ \E args \in { << <<49>> >>, << <<120>> >> }, response \in { <<121>>, <<110>> } :
           DeleteNoteCmd(args, response)

SpecNoteText == Init /\ [][NextNoteText]_vars

\* C24: every stored note has a text that is not empty after trimming: a
\* note with an empty or blank text is not created, and edit-note with an
\* empty or blank new text leaves the note it names as it was.
C24_StoredNoteTextNeverBlank ==
    /\ \A i \in 1..Len(notes) : Len(notes[i].text) > 0 /\ ~IsBlank(notes[i].text)
    /\ (last.op = "add-note" /\ IsBlank(last.args[1])) => last.number = 0
    /\ (last.op = "edit-note" /\ IsBlank(last.args[2]) /\ last.before # None)
         => NoteOf(last.before[1].uuid) = last.before[1]

(***************************************************************************)
(* Names given to Name, Record and add-contact                             *)
(***************************************************************************)
\* "ann", "bob", "" and "  " (two spaces)
RawNames == Names \cup {"", "  "}

\* Name(raw) is constructed
NewName(raw) ==
    /\ UNCHANGED procVars
    /\ last' = [op |-> "Name", raw |-> raw, ret |-> Name(raw)]
    /\ UNCHANGED <<bookVars, noteVars>>

NextNames ==
    \/ \E raw \in RawNames : NewName(raw)
    \/ \E name \in RawNames : AddRecord(name)
    \/ \E name \in RawNames : AddRecordFails(name)
    \/ \E name \in RawNames, phone \in RawPhones : AddContactCmd(name, phone)

SpecNames == Init /\ [][NextNames]_vars

\* C25: Name(raw) fails with ValueError for every raw that is empty after
\* trimming and stores raw as given otherwise; no record of the book has a
\* blank name.
C25_BlankNameRejected ==
    /\ last.op = "Name" =>
         IF IsBlank(Spelling(last.raw))
         THEN last.ret.exc = "ValueError"
         ELSE last.ret = Return(last.raw)
    /\ \A i \in 1..Len(book) : ~IsBlank(Spelling(book[i].name))

(***************************************************************************)
(* The number add-note announces and the number edit-note and delete-note  *)
(* take                                                                    *)
(***************************************************************************)
NextOrdinals ==
    \/ \E args \in { << <<120>> >>, << <<121>> >> } : AddNoteCmd(args, MaxNumbered)
    \/ \E args \in { << <<49>>, <<122>> >>, << <<50>>, <<122>> >> } : EditNoteCmd(args)
    \/ \E args \in { << <<49>> >>, << <<50>> >> }, response \in { <<121>>, <<110>> } :
           DeleteNoteCmd(args, response)

SpecOrdinals == Init /\ [][NextOrdinals]_vars

\* add-note has just announced a number, the notebook holding two or more
\* notes created at different times
AnnouncedAmongSeveral ==
    /\ last.op = "add-note"
    /\ last.number > 0
    /\ Len(notes) >= 2
    /\ \A i, j \in 1..Len(notes) : i # j => notes[i].created_at # notes[j].created_at

\* C27: the number k that add-note announces for the new note is the number
\* under which the next command, edit-note k or delete-note k, finds that
\* same note.
C27_AnnouncedNumberResolvesToTheNote ==
    [][ AnnouncedAmongSeveral =>
          /\ (last'.op = "edit-note" /\ int(last'.args[1]).val = last.number)
               => (last'.before # None /\ last'.before[1].uuid = last.uuid)
          /\ (last'.op = "delete-note" /\ int(last'.args[1]).val = last.number
                /\ last'.out = "deleted successfully")
               => (last.uuid \notin NoteIds(notes') /\ Len(notes') = Len(notes) - 1)
      ]_vars

(***************************************************************************)
(* AddressBook.data as a dictionary with its keys spelled out              *)
(* In the behaviours of SpecKeys `book` holds the entries of self.data,    *)
(* each a key with the record stored under it, in insertion order.         *)
(***************************************************************************)
DictKeys(d) == { d[i].key : i \in 1..Len(d) }

DictIndex(d, key) == CHOOSE i \in 1..Len(d) : d[i].key = key

\* self.data[key] = value: an existing key keeps its place
dict_setitem(d, key, value) ==
    IF key \in DictKeys(d)
    THEN [d EXCEPT ![DictIndex(d, key)] = [key |-> key, record |-> value]]
    ELSE Append(d, [key |-> key, record |-> value])

\* add_record that stores the record as one more entry
KeyedAddRecordAppends(d, record) ==
    Append(d, [key |-> record.name, record |-> record])

\* AddressBook.add_record: self.data[record.name.value] = record
keyed_add_record(d, record) == dict_setitem(d, record.name, record)

\* AddressBook.delete: the dictionary afterwards, the record returned or
\* KeyError
keyed_delete(d, name) ==
    IF name \in DictKeys(d)
    THEN [exc |-> "None", data |-> RemoveAt(d, DictIndex(d, name)),
          val |-> Some(d[DictIndex(d, name)].record)]
    ELSE [exc |-> "KeyError", data |-> d, val |-> None]

\* AddressBook.find
keyed_find(d, name) ==
    IF name \in DictKeys(d) THEN Some(d[DictIndex(d, name)].record) ELSE None

\* the names given: two that differ in case only, and a third
KeyNames == { "ann", "Ann", "bob" }

\* book.add_record(Record(name))
KeyedAddRecord(name) ==
    /\ NewRecord(name).exc = "None"
    /\ book' = keyed_add_record(book, NewRecord(name).val)
    /\ UNCHANGED procVars
    /\ last' = [op |-> "add_record", record |-> NewRecord(name).val, before |-> book]
    /\ UNCHANGED <<importDate, today, noteVars>>

\* book.delete(name)
KeyedDelete(name) ==
    /\ book' = keyed_delete(book, name).data
    /\ UNCHANGED procVars
    /\ last' = [op |-> "delete", name |-> name, before |-> book,
                exc |-> keyed_delete(book, name).exc]
    /\ UNCHANGED <<importDate, today, noteVars>>

\* book.find(name)
KeyedFind(name) ==
    /\ UNCHANGED procVars
    /\ last' = [op |-> "find", name |-> name, before |-> book,
                ret |-> keyed_find(book, name)]
    /\ UNCHANGED <<bookVars, noteVars>>

\* a handler mutates in place the record that find returned:
\* book.find(name).add_phone(phone)
KeyedAddPhone(name, phone) ==
    /\ keyed_find(book, name) # None
    /\ Len(keyed_find(book, name)[1].phones) < MaxPhones
    /\ book' = [book EXCEPT ![DictIndex(book, name)].record =
                    add_phone(keyed_find(book, name)[1], phone).rec]
    /\ UNCHANGED procVars
    /\ last' = [op |-> "add_phone", name |-> name, before |-> book]
    /\ UNCHANGED <<importDate, today, noteVars>>

NextKeys ==
    \/ \E name \in KeyNames \cup {""} : KeyedAddRecord(name)
    \/ \E name \in KeyNames : KeyedDelete(name)
    \/ \E name \in KeyNames : KeyedFind(name)
    \/ \E name \in KeyNames, phone \in { Repeat(49, 10), <<49, 50, 51>> } :
           KeyedAddPhone(name, phone)

SpecKeys == Init /\ [][NextKeys]_vars

\* C30: every entry is stored under its record's name and no key occurs
\* twice; add_record of a name that is a key replaces the stored record and
\* keeps the number of entries; find returns the stored record for exactly the
\* names that are keys, as spelled, and None otherwise.
C30_KeysAreTheRecordsNames ==
    /\ \A i \in 1..Len(book) : book[i].key = book[i].record.name
    /\ \A i, j \in 1..Len(book) : book[i].key = book[j].key => i = j
    /\ last.op = "add_record" =>
         /\ \E i \in 1..Len(book) :
              book[i].key = last.record.name /\ book[i].record = last.record
         /\ Len(book) = IF \E i \in 1..Len(last.before) :
                              last.before[i].key = last.record.name
                        THEN Len(last.before) ELSE Len(last.before) + 1
    /\ last.op = "find" =>
         /\ book = last.before
         /\ IF \E i \in 1..Len(book) : book[i].key = last.name
            THEN \E i \in 1..Len(book) :
                   book[i].key = last.name /\ last.ret = Some(book[i].record)
            ELSE last.ret = None

\* add_record has replaced a record that held a phone by a new one of the
\* same name, while "ann" and "Ann" are two entries
C30_Witness ==
    /\ last.op = "add_record"
    /\ \E i \in 1..Len(last.before) :
         /\ last.before[i].key = last.record.name
         /\ last.before[i].record.phones # <<>>
         /\ book[i].record.phones = <<>>
    /\ Len(book) = Len(last.before)
    /\ {"ann", "Ann"} \subseteq DictKeys(book)

====
